---------------------------- MODULE Spec2Model ----------------------------
(***************************************************************************)
(* A model of GbDetector (src/dist/detector.js): the detect pipeline as a  *)
(* state machine, with its text helpers as operators.                       *)
(*                                                                         *)
(* Texts are sequences of one-character strings.  Scores are integers in   *)
(* units of 1/Unit (Unit = 30000 makes every constant of the source and    *)
(* every threshold L/6, 0.8L/3, 2.5L/3 an integer); the source computes in *)
(* IEEE doubles, the model in exact arithmetic.                            *)
(***************************************************************************)
EXTENDS Integers, Sequences, FiniteSets, TLC

(***************************************************************************)
(* Characters and character classes of the regular expressions             *)
(***************************************************************************)
LowerSeq == <<"a","b","c","d","e","f","g","h","i","j","k","l","m",
              "n","o","p","q","r","s","t","u","v","w","x","y","z">>
UpperSeq == <<"A","B","C","D","E","F","G","H","I","J","K","L","M",
              "N","O","P","Q","R","S","T","U","V","W","X","Y","Z">>
Range(f) == {f[i] : i \in DOMAIN f}
LowerLetters == Range(LowerSeq)
UpperLetters == Range(UpperSeq)
Letters == LowerLetters \cup UpperLetters                       \* [a-zA-Z]
Digits == {"0","1","2","3","4","5","6","7","8","9"}            \* \d
WordChars == Letters \cup Digits \cup {"_"}                     \* \w
SpaceChars == {" ", "\n", "\t"}                                 \* \s
SepChars == {".", "-", "_", "*", "|", "+", "=", ":", ";", ",", "'"}
                                                                \* [.\-_*|+=:;,']
NameChars == Letters \cup {"_", "+", "-"}                       \* [a-zA-Z_+-]
\* The letters with a diacritic (NFKD splits them into a base letter and a mark).
AccentBase == [c \in {"é"} |-> "e"]

\* Bind(e, F) is F(e) with e evaluated once, before F is applied (the
\* source's "const v = e; ..." rather than a textual abbreviation).
Bind(e, F(_)) == CHOOSE zz \in {F(yy) : yy \in {e}} : TRUE

\* String.prototype.toLowerCase, one character
toLowerChar(c) ==
    IF c \in UpperLetters
    THEN LowerSeq[CHOOSE i \in DOMAIN UpperSeq : UpperSeq[i] = c]
    ELSE c
toLowerCase(text) == Bind(text, LAMBDA s : [i \in DOMAIN s |-> toLowerChar(s[i])])

Min2(x, y) == IF x <= y THEN x ELSE y
Max2(x, y) == IF x >= y THEN x ELSE y
Abs(x) == IF x < 0 THEN 0 - x ELSE x

\* s.slice(a, b): the characters after position a up to position b
Slice(s, a, b) == IF b <= a THEN <<>> ELSE SubSeq(s, a + 1, b)
Keep(s, set) == SelectSeq(s, LAMBDA c : c \in set)
Drop(s, set) == SelectSeq(s, LAMBDA c : c \notin set)

RECURSIVE Flatten(_)
Flatten(seqs) ==
    Bind(seqs, LAMBDA ss : IF ss = <<>> THEN <<>> ELSE Head(ss) \o Flatten(Tail(ss)))

\* the first position (0-based offset) at which sub occurs in s, or -1
IndexOf(s, sub) ==
    Bind({i \in 0..(Len(s) - Len(sub)) : Slice(s, i, i + Len(sub)) = sub}, LAMBDA hits :
        IF hits = {} THEN -1 ELSE CHOOSE i \in hits : \A j \in hits : i <= j)
\* String.prototype.includes
Includes(s, sub) == IndexOf(s, sub) >= 0
\* String.prototype.startsWith
StartsWith(s, sub) == Len(sub) <= Len(s) /\ Slice(s, 0, Len(sub)) = sub
\* String.prototype.replace(string, string): the first occurrence only
ReplaceFirst(s, pat, repl) ==
    Bind(IndexOf(s, pat), LAMBDA i :
        IF i < 0 THEN s
        ELSE Slice(s, 0, i) \o repl \o Slice(s, i + Len(pat), Len(s)))

\* String.prototype.trim
RECURSIVE TrimLeft(_)
TrimLeft(text) ==
    Bind(text, LAMBDA s :
        IF s # <<>> /\ Head(s) \in SpaceChars THEN TrimLeft(Tail(s)) ELSE s)
RECURSIVE TrimRight(_)
TrimRight(text) ==
    Bind(text, LAMBDA s :
        IF s # <<>> /\ s[Len(s)] \in SpaceChars
        THEN TrimRight(SubSeq(s, 1, Len(s) - 1)) ELSE s)
Trim(s) == TrimRight(TrimLeft(s))

\* replace(/\s+/g, ' '): every run of whitespace becomes one space
RECURSIVE CollapseSpaces(_)
CollapseSpaces(text) ==
    Bind(text, LAMBDA s :
        IF s = <<>> THEN <<>>
        ELSE IF Head(s) \in SpaceChars
             THEN <<" ">> \o CollapseSpaces(TrimLeft(s))
             ELSE <<Head(s)>> \o CollapseSpaces(Tail(s)))

\* split(/\s+/): the pieces between runs of whitespace (empty pieces at the
\* ends included, as in JavaScript)
RECURSIVE SplitSpaces(_, _)
SplitSpaces(text, piece) ==
    Bind(text, LAMBDA s : Bind(piece, LAMBDA cur :
        IF s = <<>> THEN <<cur>>
        ELSE IF Head(s) \in SpaceChars
             THEN <<cur>> \o SplitSpaces(TrimLeft(s), <<>>)
             ELSE SplitSpaces(Tail(s), Append(cur, Head(s)))))

(***************************************************************************)
(* A backtracking matcher for the regular expressions of the normalizer.   *)
(* A pattern is a sequence of items; Ends gives, in the order a            *)
(* backtracking engine tries them, the positions at which an item can end  *)
(* when it starts at position i (positions count the characters consumed). *)
(***************************************************************************)
\* hi = -1 stands for "no upper limit"
Cls(set, lo, hi) == [k |-> "cls", set |-> set, lo |-> lo, hi |-> hi, item |-> <<>>]
WordB == [k |-> "wb", set |-> {}, lo |-> 0, hi |-> 0, item |-> <<>>]
NotAhead(set) == [k |-> "nla", set |-> set, lo |-> 0, hi |-> 0, item |-> <<>>]
Rep(items, lo, hi) == [k |-> "rep", set |-> {}, lo |-> lo, hi |-> hi, item |-> items]
\* (?:w1|w2|...) under the i flag: the literal words, tried in order
Lit(words) == [k |-> "lit", set |-> {}, lo |-> 0, hi |-> 0, item |-> words]
\* branch1|branch2|...: each branch a sequence of items
Or(branches) == [k |-> "or", set |-> {}, lo |-> 0, hi |-> 0, item |-> branches]

IsWordAt(s, i) == i >= 1 /\ i <= Len(s) /\ s[i] \in WordChars
\* \b at position i: exactly one of the characters around it is a word character
AtWordBoundary(s, i) == IsWordAt(s, i) # IsWordAt(s, i + 1)

RECURSIVE RunLen(_, _, _, _)
RunLen(s, i, set, hi) ==
    IF hi = 0 \/ i >= Len(s) \/ s[i + 1] \notin set THEN 0
    ELSE 1 + RunLen(s, i + 1, set, hi - 1)

RECURSIVE Ends(_, _, _)
RECURSIVE SeqEnds(_, _, _, _)
RECURSIVE RepEnds(_, _, _, _)
Ends(r, s, i) ==
    CASE r.k = "cls" ->
            Bind(RunLen(s, i, r.set, r.hi), LAMBDA n :
                IF n < r.lo THEN <<>>
                ELSE [j \in 1..(n - r.lo + 1) |-> i + n - j + 1])   \* greedy first
      [] r.k = "wb" -> IF AtWordBoundary(s, i) THEN <<i>> ELSE <<>>
      [] r.k = "nla" -> IF i < Len(s) /\ s[i + 1] \in r.set THEN <<>> ELSE <<i>>
      [] r.k = "rep" -> RepEnds(r, s, i, 0)
      [] r.k = "lit" ->
            Flatten([w \in DOMAIN r.item |->
                IF toLowerCase(Slice(s, i, Min2(Len(s), i + Len(r.item[w])))) = toLowerCase(r.item[w])
                THEN <<i + Len(r.item[w])>> ELSE <<>>])
      [] r.k = "or" ->
            Flatten([b \in DOMAIN r.item |-> SeqEnds(r.item[b], 1, s, i)])
SeqEnds(items, k, s, i) ==
    IF k > Len(items) THEN <<i>>
    ELSE Bind(Ends(items[k], s, i), LAMBDA es :
             Flatten([j \in DOMAIN es |-> SeqEnds(items, k + 1, s, es[j])]))
RepEnds(r, s, i, n) ==
    Bind(IF r.hi >= 0 /\ n >= r.hi THEN <<>>
         ELSE Bind(SelectSeq(SeqEnds(r.item, 1, s, i), LAMBDA e : e > i), LAMBDA es :
                  Flatten([j \in DOMAIN es |-> RepEnds(r, s, es[j], n + 1)])),
         LAMBDA more : IF n >= r.lo THEN Append(more, i) ELSE more)

\* The match a backtracking engine finds for the pattern at position i: the
\* end position of every item, or <<>> when the pattern does not match there.
RECURSIVE MatchFrom(_, _, _, _)
RECURSIVE TryEnds(_, _, _, _, _)
MatchFrom(items, k, s, i) ==
    Bind(Ends(items[k], s, i), LAMBDA es : TryEnds(items, k, s, es, 1))
TryEnds(items, k, s, es, j) ==
    IF j > Len(es) THEN <<>>
    ELSE IF k = Len(items) THEN <<es[j]>>
    ELSE Bind(MatchFrom(items, k + 1, s, es[j]), LAMBDA rest :
             IF rest # <<>> THEN <<es[j]>> \o rest
             ELSE TryEnds(items, k, s, es, j + 1))
\* the text item k matched, in a match that started at i with item ends m
ItemText(s, i, m, k) == Slice(s, IF k = 1 THEN i ELSE m[k - 1], m[k])
\* the replacement of a match: keep[k] says what is kept of item k's text
Replacement(s, i, m, keep) ==
    Flatten([k \in DOMAIN m |->
        CASE keep[k] = "all" -> ItemText(s, i, m, k)
          [] keep[k] = "digits" -> Keep(ItemText(s, i, m, k), Digits)
          [] OTHER -> <<>>])

\* s.replace(/pattern/g, replacement), scanning from position i
RECURSIVE ReplaceFrom(_, _, _, _)
ReplaceFrom(items, keep, s, i) ==
    IF i >= Len(s) THEN <<>>
    ELSE Bind(MatchFrom(items, 1, s, i), LAMBDA m :
             IF m # <<>> /\ m[Len(m)] > i
             THEN Replacement(s, i, m, keep) \o ReplaceFrom(items, keep, s, m[Len(m)])
             ELSE <<s[i + 1]>> \o ReplaceFrom(items, keep, s, i + 1))
ReplaceAll(items, keep, text) ==
    Bind(items, LAMBDA p : Bind(text, LAMBDA s : ReplaceFrom(p, keep, s, 0)))
\* s.match(/pattern/g): the matched substrings in order, <<>> standing for null
RECURSIVE MatchesFrom(_, _, _)
MatchesFrom(items, s, i) ==
    IF i > Len(s) THEN <<>>
    ELSE Bind(MatchFrom(items, 1, s, i), LAMBDA m :
             IF m = <<>> THEN MatchesFrom(items, s, i + 1)
             ELSE <<Slice(s, i, m[Len(m)])>> \o
                  MatchesFrom(items, s, IF m[Len(m)] > i THEN m[Len(m)] ELSE i + 1))
MatchAll(items, text) ==
    Bind(items, LAMBDA p : Bind(text, LAMBDA s : MatchesFrom(p, s, 0)))
\* regex.test(s)
Test(items, text) ==
    Bind(items, LAMBDA p : Bind(text, LAMBDA s :
        \E i \in 0..Len(s) : MatchFrom(p, 1, s, i) # <<>>))

(***************************************************************************)
(* The text normalizers of detector.js                                     *)
(***************************************************************************)
\* cleanText: NFKD, strip the combining marks, NFKC
cleanText(text) ==
    Bind(text, LAMBDA s :
        [i \in DOMAIN s |-> IF s[i] \in DOMAIN AccentBase THEN AccentBase[s[i]] ELSE s[i]])

\* [^a-zA-Z0-9\s\.,!?]
GarbageChars(text) == Drop(text, Letters \cup Digits \cup SpaceChars \cup {".", ",", "!", "?"})
\* isMostlyAsciiGarbage(text, threshold), the threshold in hundredths
isMostlyAsciiGarbage(text, threshold) ==
    Bind(text, LAMBDA s :
        IF Len(s) = 0 THEN FALSE
        ELSE 100 * Len(GarbageChars(s)) >= threshold * Len(s))

L1 == Cls(Letters, 1, 1)
Gap == Cls(SpaceChars, 1, -1)
Sep1 == Cls(SepChars, 1, 1)
\* reconstructSeparatedWords
reconstructSeparatedWords(text) ==
    LET r1 == ReplaceAll(<<WordB, L1, Gap, L1, Gap, L1, Gap, L1, WordB>>,
                  <<"", "all", "", "all", "", "all", "", "all", "">>, text)
        r2 == ReplaceAll(<<WordB, L1, Gap, L1, Gap, L1, WordB>>,
                  <<"", "all", "", "all", "", "all", "">>, r1)
        r3 == ReplaceAll(<<WordB, L1, Gap, L1, WordB>>,
                  <<"", "all", "", "all", "">>, r2)
        r4 == ReplaceAll(<<WordB, L1, Sep1, L1, WordB>>,
                  <<"", "all", "", "all", "">>, r3)
    IN Bind(ReplaceAll(<<WordB, L1, Sep1, L1, Sep1, L1, WordB>>,
                <<"", "all", "", "all", "", "all", "">>, r4), LAMBDA r5 :
           IF Test(<<WordB, L1, Sep1, L1, Sep1, L1, Sep1>>, r5)
           THEN ReplaceAll(<<WordB, L1, Sep1, L1, Sep1, L1, Sep1, L1, WordB>>,
                    <<"", "all", "", "all", "", "all", "", "all", "">>, r5)
           ELSE r5)

\* ([A-Z]?[a-zA-Z_+-]{2,}\d{0,10})
Cap01 == Cls(UpperLetters, 0, 1)
Name2 == Cls(NameChars, 2, -1)
Dig1 == Cls(Digits, 1, -1)
\* mergeTextWithTrailingNumbers
mergeTextWithTrailingNumbers(text) ==
    LET m1 == ReplaceAll(<<WordB, Cap01, Name2, Cls(Digits, 0, 10),
                           Rep(<<Gap, Dig1>>, 1, -1), WordB, NotAhead({"."})>>,
                  <<"", "all", "all", "all", "digits", "", "">>, text)
        m2 == ReplaceAll(<<WordB, Cap01, Name2, Cls(Digits, 0, 10),
                           Cls(SpaceChars \cup {".", "-"}, 1, -1), Dig1, WordB>>,
                  <<"", "all", "all", "all", "", "all", "">>, m1)
    IN ReplaceAll(<<WordB, Cap01, Name2, Gap, Dig1, Gap, Name2, WordB>>,
           <<"", "all", "all", "", "all", "", "all", "">>, m2)

\* the analysis text of detect: newlines to spaces, periods padded with
\* spaces, runs of whitespace collapsed, trimmed
PadPeriods(text) ==
    Bind(text, LAMBDA s :
        Flatten([i \in DOMAIN s |-> IF s[i] = "." THEN <<" ", ".", " ">> ELSE <<s[i]>>]))
rawTextOf(text) ==
    Bind(text, LAMBDA s :
        Trim(CollapseSpaces(PadPeriods([i \in DOMAIN s |->
            IF s[i] = "\n" THEN " " ELSE s[i]]))))

W1 == Cls(WordChars, 1, 1)
charMap ==
    [c \in {"¢","€","£","¥","@","5","3","1","0","4","7","6","9","8"} |->
        CASE c = "¢" -> "c" [] c = "€" -> "e" [] c = "£" -> "l" [] c = "¥" -> "y"
          [] c = "@" -> "a" [] c = "5" -> "s" [] c = "3" -> "e" [] c = "1" -> "i"
          [] c = "0" -> "o" [] c = "4" -> "a" [] c = "7" -> "t" [] c = "6" -> "g"
          [] c = "9" -> "g" [] c = "8" -> "b"]
\* cleanWeirdPatterns
cleanWeirdPatterns(text) ==
    LET t0 == Trim(CollapseSpaces(text))
        t1 == ReplaceAll(<<W1, Cls(SpaceChars, 0, -1), Cls({"."}, 1, 1),
                           Cls(SpaceChars, 0, -1), W1>>,
                  <<"all", "", "", "", "all">>, t0)
        t2 == ReplaceAll(<<W1, Cls(SpaceChars \cup SepChars, 1, -1), W1>>,
                  <<"all", "", "all">>, t1)
    IN Bind(ReplaceAll(<<Gap, W1, Gap, W1, Gap, W1, Gap>>,
                <<"", "all", "", "all", "", "all", "">>, t2), LAMBDA t3 :
           [i \in DOMAIN t3 |-> IF t3[i] \in DOMAIN charMap THEN charMap[t3[i]] ELSE t3[i]])

Short3 == Cls(Letters, 1, 3)
\* combineShortWords
combineShortWords(text) ==
    LET pair == <<WordB, Short3, Gap, Short3, WordB>>
        r1 == ReplaceAll(pair, <<"", "all", "", "all", "">>, text)
        r2 == ReplaceAll(pair, <<"", "all", "", "all", "">>, r1)
    IN ReplaceAll(<<WordB, Short3, Gap, Short3, Gap, Short3, WordB>>,
           <<"", "all", "", "all", "", "all", "">>, r2)

\* the substitution map of convertCommentFixed, on the characters a \w+ word
\* can hold
leetMap ==
    [c \in Digits \cup {"_"} |->
        CASE c = "1" -> "i" [] c = "2" -> "z" [] c = "3" -> "e" [] c = "4" -> "a"
          [] c = "5" -> "s" [] c = "6" -> "g" [] c = "7" -> "t" [] c = "8" -> "b"
          [] c = "9" -> "g" [] c = "0" -> "o" [] c = "_" -> "l"]
convertWord(word, ignoreLastDigits) ==
    Bind(word, LAMBDA w :
        IF Len(w) <= ignoreLastDigits THEN w
        ELSE [i \in DOMAIN w |->
                IF i <= Len(w) - ignoreLastDigits /\ w[i] \in DOMAIN leetMap
                THEN leetMap[w[i]] ELSE w[i]])
\* convertCommentFixed: every maximal run of word characters is converted
RECURSIVE convertCommentFixed(_, _)
convertCommentFixed(comment, ignoreLastDigits) ==
    Bind(comment, LAMBDA s :
        IF s = <<>> THEN <<>>
        ELSE Bind(RunLen(s, 0, WordChars, -1), LAMBDA n :
                 IF n = 0
                 THEN <<Head(s)>> \o convertCommentFixed(Tail(s), ignoreLastDigits)
                 ELSE convertWord(SubSeq(s, 1, n), ignoreLastDigits) \o
                      convertCommentFixed(SubSeq(s, n + 1, Len(s)), ignoreLastDigits)))

\* text.match(/\b\w+\b/g) || []
RECURSIVE Words(_)
Words(text) ==
    Bind(text, LAMBDA s :
        IF s = <<>> THEN <<>>
        ELSE Bind(RunLen(s, 0, WordChars, -1), LAMBDA n :
                 IF n = 0 THEN Words(Tail(s))
                 ELSE <<SubSeq(s, 1, n)>> \o Words(SubSeq(s, n + 1, Len(s)))))
\* text.match(/(.)\1{3,}/g) joined: the total length of the runs of four or
\* more equal characters
RECURSIVE RepeatedLen(_)
RepeatedLen(text) ==
    Bind(text, LAMBDA s :
        IF s = <<>> THEN 0
        ELSE Bind(RunLen(s, 0, {Head(s)} \ {"\n"}, -1), LAMBDA n :
                 IF n = 0 THEN RepeatedLen(Tail(s))
                 ELSE (IF n >= 4 THEN n ELSE 0) + RepeatedLen(SubSeq(s, n + 1, Len(s)))))
\* hasAbnormalRepetition(text) with its default threshold 0.4
hasAbnormalRepetition(text) ==
    IF Len(text) < 5 THEN FALSE
    ELSE Bind(Words(toLowerCase(text)), LAMBDA words :
         Bind([i \in 1..(Len(words) - 2) |-> <<words[i], words[i + 1], words[i + 2]>>],
              LAMBDA phrases :
         Bind(RepeatedLen(text), LAMBDA repeated :
            \/ repeated > 0 /\ 10 * repeated > 4 * Len(text)
            \/ Len(words) >= 5 /\ 2 * Cardinality(Range(words)) < Len(words)
            \/ /\ Len(words) >= 9
               /\ Len(phrases) >= 3
               /\ 10 * Cardinality(Range(phrases)) < 7 * Len(phrases))))

\* createPatternRegex(terms, loose); <<>> stands for null
createPatternRegex(terms, loose) ==
    IF terms = <<>> THEN <<>>
    ELSE IF loose
    THEN <<Rep(<<Cls(Letters \cup Digits, 1, 1), Cls(NameChars \cup Digits, 0, 4)>>, 0, 1),
           Lit(terms),
           Rep(<<Cls(NameChars \cup Digits, 0, 4), Cls(Letters \cup Digits, 1, 1)>>, 0, 1),
           Cls(Digits, 0, -1)>>
    ELSE <<WordB,
           Rep(<<Cls(Letters, 1, 1), Cls(NameChars, 0, 4)>>, 0, 1),
           Lit(terms),
           Rep(<<Cls(NameChars, 0, 4), Cls(Letters, 1, 1)>>, 0, 1),
           Cls(Digits, 0, -1)>>
\* TinyPatternRegex(terms).  The source joins the terms with | without a
\* group, so its pattern is an alternation of: prefix + first term, the
\* middle terms alone, last term + suffix + digits.
TinyPatternRegex(terms) ==
    IF terms = <<>> THEN <<>>
    ELSE LET pre == Rep(<<Cls(Letters, 2, 10)>>, 0, 1)
             suf == <<Rep(<<Cls(Letters, 2, 10)>>, 0, 1), Rep(<<Cls(Digits, 2, 5)>>, 0, 1)>>
         IN IF Len(terms) = 1
            THEN <<pre, Lit(terms)>> \o suf
            ELSE <<Or([k \in DOMAIN terms |->
                     IF k = 1 THEN <<pre, Lit(<<terms[1]>>)>>
                     ELSE IF k = Len(terms) THEN <<Lit(<<terms[k]>>)>> \o suf
                     ELSE <<Lit(<<terms[k]>>)>>])>>
\* standardPatternRegex
standardPatternRegex ==
    <<Or(<< <<WordB, Cls(Letters, 0, 1), Name2, Cls(Digits, 2, 10), WordB, NotAhead({"."})>>,
            <<Lit(<< <<"s","l","o","t">>, <<"c","a","s","i","n","o">>,
                     <<"g","a","m","b","l","i","n","g">>, <<"b","e","t">>,
                     <<"p","o","k","e","r">>, <<"j","a","c","k","p","o","t">>,
                     <<"j","o","k","e","r">>, <<"z","e","u","s">>,
                     <<"t","o","t","o">>, <<"j","u","d","i">> >>),
              Rep(<<Cls(NameChars, 0, 4), Cls(Letters, 1, 1)>>, 0, 1)>> >>)>>

(***************************************************************************)
(* fuzzySearch                                                             *)
(***************************************************************************)
substitutionMap ==
    [c \in {"1","2","3","4","5","6","7","8","9","0","!","&","@","#"} |->
        CASE c = "1" -> "i" [] c = "2" -> "z" [] c = "3" -> "e" [] c = "4" -> "a"
          [] c = "5" -> "s" [] c = "6" -> "g" [] c = "7" -> "t" [] c = "8" -> "b"
          [] c = "9" -> "g" [] c = "0" -> "o" [] c = "!" -> "i" [] c = "&" -> "e"
          [] c = "@" -> "a" [] c = "#" -> "h"]
\* normalize: lower case, then the leet substitutions character by character
normalize(text) ==
    Bind(text, LAMBDA s :
        [i \in DOMAIN s |->
            Bind(toLowerChar(s[i]), LAMBDA c :
                IF c \in DOMAIN substitutionMap THEN substitutionMap[c] ELSE c)])

\* One row of the distance table: curr[j] for j = 0..Len(b), kept at index
\* j + 1.  The transposition case reads prev[j - 2], as the source does.
RECURSIVE levRow(_, _, _, _, _, _)
levRow(a, b, i, prev, curr, j) ==
    IF j > Len(b) THEN curr
    ELSE LET cost == IF a[i] = b[j] THEN 0 ELSE 1
             base == Min2(Min2(curr[j] + 1, prev[j + 1] + 1), prev[j] + cost)
             v == IF i > 1 /\ j > 1 /\ a[i] = b[j - 1] /\ a[i - 1] = b[j]
                  THEN Min2(base, prev[j - 1] + 1) ELSE base
         IN Bind(Append(curr, v), LAMBDA row : levRow(a, b, i, prev, row, j + 1))
RECURSIVE levRows(_, _, _, _)
levRows(a, b, i, prev) ==
    IF i > Len(a) THEN prev
    ELSE Bind(levRow(a, b, i, prev, <<i>>, 1), LAMBDA curr : levRows(a, b, i + 1, curr))
\* levenshtein(a, b) of fuzzySearch, with its maxDistance
levenshtein(s1, s2, maxDistance) ==
    Bind(s1, LAMBDA a : Bind(s2, LAMBDA b :
        IF a = b THEN 0
        ELSE IF Len(a) = 0 THEN Len(b)
        ELSE IF Len(b) = 0 THEN Len(a)
        ELSE IF Abs(Len(a) - Len(b)) > maxDistance THEN maxDistance + 1
        ELSE Bind([j \in 1..(Len(b) + 1) |-> j - 1], LAMBDA prev :
                 levRows(a, b, 1, prev)[Len(b) + 1])))

\* calculateScore(q, i, d) as the fraction num/den
scoreFraction(q, i, d) ==
    IF d = 0 THEN [num |-> 1, den |-> 1]
    ELSE LET maxLength == Max2(Len(q), Len(i))
             bonus == (IF Includes(i, q) THEN 1 ELSE 0) + (IF StartsWith(i, q) THEN 2 ELSE 0)
         IN Bind(10 * (maxLength - d) + bonus * maxLength, LAMBDA num :
                [num |-> Min2(num, 10 * maxLength), den |-> 10 * maxLength])
\* parseFloat(score.toFixed(3)), in thousandths
scoreMilli(f) == (2000 * f.num + f.den) \div (2 * f.den)

\* results.sort((a, b) => b.score - a.score): stable, best score first
RECURSIVE sortByScore(_)
sortByScore(results) ==
    Bind(results, LAMBDA rs :
        IF rs = <<>> THEN <<>>
        ELSE Bind(rs[Len(rs)], LAMBDA r :
             Bind(sortByScore(SubSeq(rs, 1, Len(rs) - 1)), LAMBDA front :
                 SelectSeq(front, LAMBDA x : x.score >= r.score) \o <<r>> \o
                 SelectSeq(front, LAMBDA x : x.score < r.score))))

\* the entry as it would be with the score alone deciding
fuzzyEntryAnyDistance(word, item, maxDistance, minScore) ==
    Bind(normalize(item), LAMBDA normItem :
    Bind(levenshtein(word, normItem, maxDistance), LAMBDA d :
    Bind(scoreFraction(word, normItem, d), LAMBDA f :
        IF 100 * f.num >= minScore * f.den
        THEN <<[matched_word |-> word, matched_with |-> item, score |-> scoreMilli(f)]>>
        ELSE <<>>)))
\* the result entry of one (word, item) pair, <<>> when it is not kept;
\* minScore in hundredths
fuzzyEntry(word, item, maxDistance, minScore) ==
    Bind(normalize(item), LAMBDA normItem :
    Bind(levenshtein(word, normItem, maxDistance), LAMBDA d :
    Bind(scoreFraction(word, normItem, d), LAMBDA f :
        IF d <= maxDistance /\ 100 * f.num >= minScore * f.den
        THEN <<[matched_word |-> word, matched_with |-> item, score |-> scoreMilli(f)]>>
        ELSE <<>>)))
\* fuzzySearch(list, query, maxDistance, minScore) for an array and a string
fuzzySearch(items, query, maxDistance, minScore) ==
    IF Trim(query) = <<>> THEN <<>>
    ELSE Bind(items, LAMBDA list :
         Bind(SplitSpaces(normalize(query), <<>>), LAMBDA words :
             sortByScore(Flatten([w \in DOMAIN words |->
                 Flatten([k \in DOMAIN list |->
                     fuzzyEntry(words[w], list[k], maxDistance, minScore)])]))))

(***************************************************************************)
(* Scores.  Pts(m) is the score m/1000 of the source.                      *)
(***************************************************************************)
Pts(m) == 30 * m

\* morpoint: the checkpoint cap of a sensitivity level; the table has no
\* entry above 5, where the source gets undefined
morpoint(inputInt) ==
    IF inputInt <= 0 THEN [defined |-> TRUE, value |-> 0]
    ELSE IF inputInt <= 5 THEN [defined |-> TRUE, value |-> 6 - inputInt]
    ELSE [defined |-> FALSE, value |-> 0]
\* x > m and x >= m for a cap m that may be undefined (then false)
CapAbove(m, x) == m.defined /\ m.value > x
CapAtLeast(m, x) == m.defined /\ m.value >= x

\* parseNumber as it would be without the upper bound
parseNumberUncapped(value, maxim) ==
    IF value < 0 THEN 0
    ELSE value
\* parseNumber(value, maxim) for a number value (in score units) and the
\* cap maxim of morpoint
parseNumber(value, maxim) ==
    IF value < 0 THEN 0
    ELSE IF maxim.defined /\ value > Pts(1000) * maxim.value THEN Pts(1000) * maxim.value
    ELSE value

\* confidenceThresholds of detect
sensitivityClamp(sensitivityLevel) == Max2(1, Min2(5, sensitivityLevel))
\* the thresholds as they would be with the factor 3 / level for level / 3
confidenceThresholdsInverse(sensitivityLevel) ==
    [low    |-> Max2(Pts(450), (Pts(500) * 3) \div sensitivityClamp(sensitivityLevel)),
     medium |-> Max2(Pts(900), (Pts(800) * 3) \div sensitivityClamp(sensitivityLevel)),
     high   |-> Max2(Pts(1200), (Pts(2500) * 3) \div sensitivityClamp(sensitivityLevel))]
\* the thresholds as they would be with 0.25 for 2.5
confidenceThresholdsSlip(sensitivityLevel) ==
    [low    |-> Max2(Pts(450), (Pts(500) * sensitivityClamp(sensitivityLevel)) \div 3),
     medium |-> Max2(Pts(900), (Pts(800) * sensitivityClamp(sensitivityLevel)) \div 3),
     high   |-> Max2(Pts(1200), (Pts(250) * sensitivityClamp(sensitivityLevel)) \div 3)]
confidenceThresholds(sensitivityLevel) ==
    [low    |-> Max2(Pts(450), (Pts(500) * sensitivityClamp(sensitivityLevel)) \div 3),
     medium |-> Max2(Pts(900), (Pts(800) * sensitivityClamp(sensitivityLevel)) \div 3),
     high   |-> Max2(Pts(1200), (Pts(2500) * sensitivityClamp(sensitivityLevel)) \div 3)]

\* parseFloat(checkpoint.toFixed(2)): the nearest hundredth of the exact sum
toFixed2(value) == ((value + Pts(5)) \div Pts(10)) * Pts(10)

(***************************************************************************)
(* Values, options and samples                                             *)
(***************************************************************************)
\* A JavaScript value passed as text: its type and what String(value) gives
StringValue(chars) == [type |-> "string", chars |-> chars]
NullValue == [type |-> "null", chars |-> <<"n","u","l","l">>]
NumberValue(digits) == [type |-> "number", chars |-> digits]
\* !value
IsFalsy(v) ==
    \/ v.type = "null"
    \/ v.type = "number" /\ v.chars = <<"0">>
    \/ v.type = "string" /\ v.chars = <<>>
\* String(value)
String(v) == StringValue(v.chars)

\* the default of options.keywords
defaultKeywords ==
    <<<<"s","l","o","t">>, <<"c","a","s","i","n","o">>, <<"j","a","c","k">>,
      <<"z","e","u","s">>, <<"s","c","a","t","t","e","r">>,
      <<"t","o","t","o">>, <<"j","u","d","o","l">>, <<"j","o","d","o","l">>,
      <<"p","o","k","e","r">>, <<"r","o","u","l","e","t","t","e">>,
      <<"b","e","t","t","i","n","g">>, <<"g","a","m","b","l","e">>,
      <<"j","o","k","e","r">>>>
\* defaultSupportKeywords.  The table of the source has 130 entries; the
\* model keeps the ones below.
defaultSupportKeywords ==
    <<<<"w","d","p">>, <<"w","d">>, <<"w","i","n">>, <<"j","p">>,
      <<"j","a","c","k","p","o","t">>, <<"b","e","t">>,
      <<"b","o","n","u","s">>, <<"g","a","c","o","r">>, <<"j","u","d","i">>,
      <<"m","a","x","w","i","n">>>>

\* the defaults of the destructuring at the head of detect
defaultOptions ==
    [keywords |-> defaultKeywords, supportKeywords |-> <<>>, domains |-> <<>>,
     allowlist |-> <<>>, sensitivityLevel |-> 3, includeAnalysis |-> FALSE,
     detectRepetition |-> TRUE, detectUrlPatterns |-> TRUE,
     detectEvasionTechniques |-> TRUE, detectContextualIndicators |-> TRUE,
     extractContactInfo |-> TRUE]

\* extractKeywordArrays for an array of strings: the non-blank entries,
\* each with score 1
extractKeywordArrays(input) ==
    Bind(SelectSeq(input, LAMBDA k : Trim(k) # <<>>), LAMBDA keys :
        [keys |-> keys, values |-> [i \in DOMAIN keys |-> Pts(1000)]])

\* The values a keyword table is made of.  A number is held in thousandths;
\* an object is held as its entries in the order Object.entries yields them.
UndefinedValue == [type |-> "undefined"]
BooleanValue(b) == [type |-> "boolean", bool |-> b]
Number(milli) == [type |-> "number", nan |-> FALSE, milli |-> milli]
NaN == [type |-> "number", nan |-> TRUE, milli |-> 0]
ObjectValue(entries) == [type |-> "object", entries |-> entries]
Entry(key, val) == [key |-> key, val |-> val]
\* the longest run of characters of a set at the head of a string
RECURSIVE Lead(_, _)
Lead(s, set) ==
    IF s = <<>> \/ s[1] \notin set THEN <<>>
    ELSE <<s[1]>> \o Lead(Tail(s), set)
\* the number a string of decimal digits spells
RECURSIVE DigitsToNat(_)
DigitsToNat(ds) ==
    IF ds = <<>> THEN 0
    ELSE 10 * DigitsToNat(SubSeq(ds, 1, Len(ds) - 1))
         + (CHOOSE n \in 0..9 : ToString(n) = ds[Len(ds)])
\* parseFloat(val) for strings in decimal notation with at most three
\* decimals: leading whitespace, a sign, digits, a period and digits; what
\* follows the number is ignored, and there is no number without a digit
parseFloat(chars) ==
    Bind(TrimLeft(chars), LAMBDA s :
    Bind(IF s # <<>> /\ s[1] \in {"+", "-"} THEN Tail(s) ELSE s, LAMBDA unsigned :
    Bind(Lead(unsigned, Digits), LAMBDA whole :
    Bind(SubSeq(unsigned, Len(whole) + 1, Len(unsigned)), LAMBDA rest :
    Bind(IF rest # <<>> /\ rest[1] = "." THEN Lead(Tail(rest), Digits) ELSE <<>>,
         LAMBDA decimals :
        IF whole = <<>> /\ decimals = <<>> THEN NaN
        ELSE Bind(1000 * DigitsToNat(whole)
                  + DigitsToNat(SubSeq(decimals \o <<"0","0","0">>, 1, 3)), LAMBDA size :
                 Number(IF s[1] = "-" THEN -size ELSE size)))))))
\* the score of a number as it would be with 0 and 1 left out of the range
numberScoreOpen(n) ==
    IF n.nan THEN Pts(1000)
    ELSE IF n.milli > 5000 THEN Pts(1000)
    ELSE IF n.milli = 4000 THEN Pts(400)
    ELSE IF n.milli > 0 /\ n.milli < 1000 THEN Pts(n.milli)
    ELSE Pts(1000)
\* processEntry, the score of a number (lines 783-792 and 797-803, where
\* score is 1 to begin with)
numberScore(n) ==
    IF n.nan THEN Pts(1000)
    ELSE IF n.milli > 5000 THEN Pts(1000)
    ELSE IF n.milli = 4000 THEN Pts(400)
    ELSE IF n.milli >= 0 /\ n.milli <= 1000 THEN Pts(n.milli)
    ELSE Pts(1000)
\* processEntry(key, val): the pair pushed to keys and values, if any
processEntry(key, val) ==
    IF key = <<>> THEN <<>>
    ELSE <<[key |-> key,
            score |-> CASE val.type = "boolean" -> IF val.bool THEN Pts(1000) ELSE 0
                        [] val.type = "number" -> numberScore(val)
                        [] val.type = "string" ->
                             Bind(parseFloat(val.chars), LAMBDA numVal :
                                 IF numVal.nan THEN Pts(1000) ELSE numberScore(numVal))
                        [] val.type \in {"null", "undefined"} -> 0
                        [] OTHER -> Pts(1000)]>>
\* Object.entries(value) of an object or of an array of up to ten items
entriesOf(value) ==
    IF value.type = "object" THEN value.entries
    ELSE [i \in DOMAIN value.items |-> Entry(<<ToString(i - 1)>>, value.items[i])]
\* the pairs one item of an array input adds
itemEntries(item) ==
    IF item.type = "string"
    THEN IF Trim(item.chars) # <<>> THEN <<[key |-> item.chars, score |-> Pts(1000)]>>
         ELSE <<>>
    ELSE IF item.type \in {"object", "array"}
    THEN Bind(entriesOf(item), LAMBDA es :
             Flatten([i \in DOMAIN es |-> processEntry(es[i].key, es[i].val)]))
    ELSE <<>>
\* extractKeywordArrays(input) for any input (lines 772-845)
extractKeywordArraysOf(input) ==
    Bind(CASE input.type \in {"null", "undefined"} -> <<>>
           [] input.type = "string" -> itemEntries(input)
           [] input.type = "array" ->
                Flatten([i \in DOMAIN input.items |-> itemEntries(input.items[i])])
           [] input.type = "object" -> itemEntries(input)
           [] OTHER -> <<>>, LAMBDA pairs :
        [keys |-> [i \in DOMAIN pairs |-> pairs[i].key],
         values |-> [i \in DOMAIN pairs |-> pairs[i].score]])

\* new Set(list.map(k => k.toLowerCase()))
LowerSet(list) == {toLowerCase(list[i]) : i \in DOMAIN list}
\* [...new Set(list)]: the first occurrence of every entry, in order
RECURSIVE Dedupe(_)
Dedupe(items) ==
    Bind(items, LAMBDA list :
        IF list = <<>> THEN <<>>
        ELSE Bind(Dedupe(SubSeq(list, 1, Len(list) - 1)), LAMBDA front :
                 IF list[Len(list)] \in Range(front) THEN front
                 ELSE Append(front, list[Len(list)])))
\* keywordList of detect: the support keywords in use
keywordListOf(options) ==
    LET given == options.supportKeywords
        base == IF Len(given) > 0 THEN given ELSE defaultSupportKeywords
        full == IF \/ Len(given) = 0
                   \/ /\ <<"w","d","p">> \notin Range(given)
                      /\ <<"w","i","n">> \notin Range(given)
                THEN Dedupe(base \o defaultSupportKeywords) ELSE base
    IN Bind(LowerSet(options.domains), LAMBDA blocked :
           SelectSeq(full, LAMBDA word :
               toLowerCase(word) \notin blocked /\ Len(Trim(word)) > 0))

\* an array value
ArrayValue(items) == [type |-> "array", items |-> items]
\* a call of fuzzySearch on any two values (lines 105-108): the TypeError
\* for a list that is no array or a query that is no string, the results
\* otherwise
fuzzySearchCall(list, query, maxDistance, minScore) ==
    IF list.type # "array" THEN [threw |-> "TypeError", value |-> <<>>]
    ELSE IF query.type # "string" THEN [threw |-> "TypeError", value |-> <<>>]
    ELSE [threw |-> "none",
          value |-> fuzzySearch(list.items, query.chars, maxDistance, minScore)]

\* the guard as it would be without the trim
TooShortUntrimmed(v) == IsFalsy(v) \/ v.type # "string" \/ Len(v.chars) < 2
\* the guard of detect: nothing, not a string, or under two characters
\* once trimmed
TooShort(v) == IsFalsy(v) \/ v.type # "string" \/ Len(Trim(v.chars)) < 2

(***************************************************************************)
(* The state of a detect call                                              *)
(***************************************************************************)
VARIABLES
    pc,             \* where the call stands; "idle" when no call is running
    args,           \* the arguments of the call: text, options, and the
                    \* outcome of the word-list probes on the text
    text,           \* the parameter text, which step 14 may reassign
    keyword,        \* extractKeywordArrays(keywords)[0]
    scorepoint,     \* extractKeywordArrays(keywords)[1]
    detected, checkpoint, analysis,
    rawText, keywordList, hasGarbage, reconstructed, merged,
    allMatches, matchedTerms, fuzzyHistory,
    pass, processedText, ignore, textFixed, converted,
    approach, foundMatch, looseAttempted,
    result,         \* the value the call returns
    ran,            \* the stages the call has run
    searchStart,    \* the checkpoint with which the pattern search began
    caller,         \* what the caller of detect holds: the arguments it passed
                    \* and the first result it got back
    batch,          \* the running detectBatch call, if any
    trial,          \* a function of the module applied on its own: what it
                    \* is given and what it returns
    isRunning,      \* the flag of the moderation script (part_001, line 12)
    runs,           \* the moderation runs start() has begun, each with the
                    \* point at which it waits
    requests,       \* the deletion requests the runs have sent
    status,         \* the last message given to updateStatus
    historyFile,    \* history.txt: absent, or its content
    appended        \* the calls of appendLineWithLimit made so far

locals == <<keyword, scorepoint, detected, checkpoint, analysis, rawText,
            keywordList, hasGarbage, reconstructed, merged, allMatches,
            matchedTerms, fuzzyHistory, pass, processedText, ignore,
            textFixed, converted, approach, foundMatch, looseAttempted,
            searchStart>>
scanVars == <<pass, processedText, ignore, textFixed, converted, approach,
              foundMatch, looseAttempted>>
textVars == <<rawText, keywordList, hasGarbage, reconstructed, merged>>
matchVars == <<allMatches, matchedTerms, fuzzyHistory>>
moderator == <<isRunning, runs, requests, status, historyFile, appended>>
outer == <<caller, batch, trial, moderator>>
vars == <<pc, args, text, locals, result, ran, outer>>

NoAnalysis == [present |-> FALSE, flags |-> {}, matchedTerms |-> {}, allMatches |-> <<>>,
               wordCount |-> 0, charCount |-> 0]
NoResult == [isGambling |-> FALSE, confidence |-> "pending", checkpoint |-> 0,
             details |-> "pending", comment |-> NullValue, analysis |-> NoAnalysis]
NoArgs == [text |-> NullValue, options |-> defaultOptions,
           probes |-> [url |-> FALSE, code |-> FALSE, evasion |-> 0,
                       contextual |-> 0, contact |-> FALSE, language |-> 0]]

\* the locals of a frame that is not running
ClearLocals ==
    /\ keyword = <<>> /\ scorepoint = <<>> /\ detected = FALSE /\ checkpoint = 0
    /\ analysis = {} /\ rawText = <<>> /\ keywordList = <<>> /\ hasGarbage = FALSE
    /\ reconstructed = <<>> /\ merged = <<>> /\ allMatches = <<>>
    /\ matchedTerms = {} /\ fuzzyHistory = <<>> /\ pass = 0
    /\ processedText = <<>> /\ ignore = 0 /\ textFixed = <<>> /\ converted = <<>>
    /\ approach = 0 /\ foundMatch = FALSE /\ looseAttempted = 0
    /\ searchStart = 0

\* analysis.name = true, when the analysis is kept
Noted(flags) == IF args.options.includeAnalysis THEN flags ELSE {}

\* the entry as it would be with keywordList built in the caller's
\* supportKeywords instead of a copy of it
EnterAliased ==
    /\ pc = "entry"
    /\ UNCHANGED <<outer, searchStart>>
    /\ \E extracted \in {extractKeywordArrays(args.options.keywords)} :
          keyword' = extracted.keys /\ scorepoint' = extracted.values
    /\ detected' = FALSE
    /\ checkpoint' = 0
    /\ analysis' = {}
    /\ IF TooShort(text)
       THEN /\ result' = [isGambling |-> FALSE, confidence |-> "none", checkpoint |-> 0,
                          details |-> "Text too short for analysis",
                          comment |-> text, analysis |-> NoAnalysis]
            /\ pc' = "done"
            /\ UNCHANGED <<rawText, keywordList>>
       ELSE /\ rawText' = rawTextOf(text.chars)
            /\ keywordList' = keywordListOf(args.options)
            /\ pc' = "signals"
            /\ UNCHANGED result
    /\ args' = IF TooShort(text) \/ args.options.supportKeywords = <<>> THEN args
               ELSE [args EXCEPT !.options.supportKeywords = keywordListOf(args.options)]
    /\ UNCHANGED <<text, hasGarbage, reconstructed, merged, matchVars, scanVars, ran>>
\* detect, lines 904-998: the options, the thresholds, the guard, the
\* analysis text and the support keywords
Enter ==
    /\ pc = "entry"
    /\ UNCHANGED <<outer, searchStart>>
    /\ \E extracted \in {extractKeywordArrays(args.options.keywords)} :
          keyword' = extracted.keys /\ scorepoint' = extracted.values
    /\ detected' = FALSE
    /\ checkpoint' = 0
    /\ analysis' = {}
    /\ IF TooShort(text)
       THEN /\ result' = [isGambling |-> FALSE, confidence |-> "none", checkpoint |-> 0,
                          details |-> "Text too short for analysis",
                          comment |-> text, analysis |-> NoAnalysis]
            /\ pc' = "done"
            /\ UNCHANGED <<rawText, keywordList>>
       ELSE /\ rawText' = rawTextOf(text.chars)
            /\ keywordList' = keywordListOf(args.options)
            /\ pc' = "signals"
            /\ UNCHANGED result
    /\ UNCHANGED <<args, text, hasGarbage, reconstructed, merged, matchVars, scanVars, ran>>

\* detect, steps 1-7 (lines 1002-1066): the signal detectors on rawText
DetectSignals ==
    /\ pc = "signals"
    /\ UNCHANGED <<outer, searchStart>>
    /\ \E garbage \in {isMostlyAsciiGarbage(rawText, 45)},
          repetition \in {args.options.detectRepetition /\ hasAbnormalRepetition(rawText)} :
       LET o == args.options
           p == args.probes
           url == o.detectUrlPatterns /\ p.url
           evasion == IF o.detectEvasionTechniques THEN p.evasion ELSE 0
           contextual == IF o.detectContextualIndicators THEN p.contextual ELSE 0
           contact == o.extractContactInfo /\ p.contact
       IN /\ hasGarbage' = garbage
          /\ checkpoint' = checkpoint
                + (IF garbage THEN Pts(400) ELSE 0)
                + (IF repetition THEN Pts(500) ELSE 0)
                + (IF url THEN Pts(700) ELSE 0)
                + (IF p.code THEN Pts(300) ELSE 0)
                + (IF evasion > 0 THEN evasion ELSE 0)
                + (IF contextual > 0 THEN contextual ELSE 0)
                + (IF contact THEN Pts(400) ELSE 0)
          /\ analysis' = analysis \cup Noted(
                (IF garbage THEN {"garbageDetected"} ELSE {})
                \cup (IF repetition THEN {"repetitionDetected"} ELSE {})
                \cup (IF url THEN {"suspiciousUrlDetected"} ELSE {})
                \cup (IF p.code THEN {"suspiciousCodeSequences"} ELSE {})
                \cup (IF evasion > 0 THEN {"evasionTechniques"} ELSE {})
                \cup (IF contextual > 0 THEN {"contextualIndicators"} ELSE {})
                \cup (IF contact THEN {"contactInfo"} ELSE {}))
    /\ ran' = ran \cup {"signals"}
    /\ pc' = "normalize"
    /\ UNCHANGED <<args, text, keyword, scorepoint, detected, rawText, keywordList,
                   reconstructed, merged, matchVars, scanVars, result>>

\* new RegExp(`\b(?:https?:\/\/)?(?:www\.)?${blocked}\b`, 'i')
domainRegex(blocked) ==
    <<WordB,
      Rep(<<Lit(<< <<"h","t","t","p">> >>), Cls({"s", "S"}, 0, 1),
            Lit(<< <<":","/","/">> >>)>>, 0, 1),
      Rep(<<Lit(<< <<"w","w","w",".">> >>)>>, 0, 1),
      Lit(<<blocked>>), WordB>>
\* domainMatched: some blocked domain occurs in the lower-cased text
domainMatched(domainSet, mergedText) ==
    Bind(mergedText, LAMBDA lowerText :
        \E blocked \in domainSet :
            Includes(lowerText, blocked) \/ Test(domainRegex(blocked), lowerText))

\* detect, steps 8-11 and the blocklist check (lines 1068-1115)
Normalize ==
    /\ pc = "normalize"
    /\ UNCHANGED <<outer, searchStart>>
    /\ \E cleaned \in {cleanText(rawText)} :
       \E rec \in {reconstructSeparatedWords(cleaned)} :
       \E mer \in {mergeTextWithTrailingNumbers(rec)} :
       \E blocked \in {domainMatched(LowerSet(args.options.domains), toLowerCase(mer))} :
       LET language == args.probes.language
       IN /\ reconstructed' = rec
          /\ merged' = mer
          /\ checkpoint' = checkpoint
                + (IF cleaned # rawText THEN Pts(300) ELSE 0)
                + (IF rec # cleaned THEN Pts(300) ELSE 0)
                - (IF mer # rec THEN Pts(300) ELSE 0)
                + (IF language > 0 THEN language ELSE 0)
                + (IF blocked THEN Pts(570) ELSE 0)
          /\ analysis' = analysis \cup Noted(
                (IF cleaned # rawText THEN {"containsNonStandardChars"} ELSE {})
                \cup (IF rec # cleaned THEN {"wordSeparationDetected"} ELSE {})
                \cup (IF mer # rec THEN {"separatedNumbersDetected"} ELSE {})
                \cup (IF language > 0 THEN {"languageSpecificMatches"} ELSE {})
                \cup (IF blocked THEN {"blockedDomainDetected"} ELSE {}))
    /\ ran' = ran \cup {"normalize"}
    /\ pc' = "fuzzy"
    /\ UNCHANGED <<args, text, keyword, scorepoint, detected, rawText, keywordList,
                   hasGarbage, matchVars, scanVars, result>>

\* the first fuzzy result above the score m/1000, as a sequence of at most one
firstAbove(results, m) ==
    Bind(SelectSeq(results, LAMBDA r : r.score > m), LAMBDA high :
        IF high = <<>> THEN <<>> ELSE <<high[1]>>)
\* list.indexOf(item), from 1; 0 when absent
indexOf(items, item) ==
    Bind(items, LAMBDA list :
        IF item \notin Range(list) THEN 0
        ELSE CHOOSE i \in DOMAIN list : list[i] = item /\ \A j \in 1..(i - 1) : list[j] # item)

\* the score a fuzzy match on the reconstructed text adds (lines 1162-1175)
fuzzyIncrement(fuzzyResults, keys, values) ==
    Bind(fuzzyResults, LAMBDA fuzzyText :
        IF fuzzyText = <<>> THEN 0
        ELSE Bind(indexOf(keys, fuzzyText[1].matched_with), LAMBDA keywordIndex :
                 IF keywordIndex = 0 THEN 0
                 ELSE IF values[keywordIndex] >= Pts(1000) THEN Pts(60)
                 ELSE values[keywordIndex]))

\* detect, steps 12-14 (lines 1117-1177)
FuzzyStep ==
    /\ pc = "fuzzy"
    /\ UNCHANGED outer
    /\ \E best \in {firstAbove(fuzzySearch(keyword, text.chars, 2, 50), 600)} :
          text' = IF best = <<>> THEN text
                  ELSE StringValue(ReplaceFirst(text.chars, best[1].matched_word,
                                                best[1].matched_with))
    /\ checkpoint' = checkpoint +
          (IF analysis \cap {"garbageDetected", "wordSeparationDetected",
                             "containsNonStandardChars"} # {}
           THEN fuzzyIncrement(fuzzySearch(keyword, reconstructed, 2, 50), keyword, scorepoint)
           ELSE 0)
    /\ searchStart' = checkpoint'
    /\ allMatches' = <<>>
    /\ matchedTerms' = {}
    /\ fuzzyHistory' = <<>>
    /\ pass' = 1
    /\ ran' = ran \cup {"fuzzy"}
    /\ pc' = "pass"
    /\ UNCHANGED <<args, keyword, scorepoint, detected, analysis, textVars,
                   processedText, ignore, textFixed, converted, approach,
                   foundMatch, looseAttempted, result>>

\* detectionPasses: the converter and the weight (in tenths) of pass n
passConverter(n, t) ==
    CASE n = 1 -> t
      [] n = 2 -> cleanWeirdPatterns(t)
      [] n = 3 -> combineShortWords(cleanWeirdPatterns(t))
passWeight(n) == CASE n = 1 -> 10 [] n = 2 -> 9 [] n = 3 -> 8

\* the head of the pass loop (lines 1180-1181)
NextPass ==
    /\ pc = "pass"
    /\ UNCHANGED <<outer, searchStart>>
    /\ IF pass > 3
       THEN pc' = "metrics" /\ UNCHANGED <<processedText, ignore>>
       ELSE /\ processedText' = passConverter(pass, merged)
            /\ ignore' = 0
            /\ pc' = "depth"
    /\ UNCHANGED <<args, text, keyword, scorepoint, detected, checkpoint, analysis,
                   textVars, matchVars, pass, textFixed, converted, approach,
                   foundMatch, looseAttempted, result, ran>>

\* the head of the ignore loop (lines 1185-1219)
NextDepth ==
    /\ pc = "depth"
    /\ UNCHANGED <<outer, searchStart>>
    /\ IF ignore > 6
       THEN /\ pass' = pass + 1
            /\ pc' = "pass"
            /\ UNCHANGED <<textFixed, converted, approach, foundMatch, looseAttempted>>
       ELSE /\ \E fixed \in {convertCommentFixed(processedText, ignore)} :
                  /\ textFixed' = fixed
                  /\ converted' = combineShortWords(cleanWeirdPatterns(fixed))
            /\ foundMatch' = FALSE
            /\ looseAttempted' = 0
            /\ approach' = 1
            /\ pass' = pass
            /\ pc' = "attempt"
    /\ ran' = ran \cup {"patterns"}
    /\ UNCHANGED <<args, text, keyword, scorepoint, detected, checkpoint, analysis,
                   textVars, matchVars, processedText, ignore, result>>

\* patternApproaches: name, pattern, value and min of approach a in pass n
approachName(a) == <<"standard", "custom", "loose", "tiny">>[a]
approachPattern(a, keys) ==
    CASE a = 1 -> standardPatternRegex
      [] a = 2 -> createPatternRegex(keys, FALSE)
      [] a = 3 -> createPatternRegex(keys, TRUE)
      [] a = 4 -> TinyPatternRegex(keys)
approachValue(a, n) == (<<Pts(500), Pts(400), Pts(300), Pts(250)>>[a] * passWeight(n)) \div 10
approachMin(a, n) == (<<Pts(14), Pts(13), Pts(11), Pts(5)>>[a] * passWeight(n)) \div 10

\* s.replace(/\s+/g, '')
NoSpaces(s) == Drop(s, SpaceChars)
\* matches.filter(match => !allowSet.has(match.toLowerCase()))
allowFilter(matches, allowed) ==
    Bind(allowed, LAMBDA allowSet :
        SelectSeq(matches, LAMBDA m : toLowerCase(m) \notin allowSet))
\* the gate of a pattern match: checkpoint > 0.5
gateOpen(cp) == cp > Pts(500)
\* the push without the slice(-2) of lines 1338-1340
pushHistoryUnbounded(history, sessions) == history \o sessions
\* fuzzyHistory after the push of a session text and the slice(-2)
pushHistory(history, sessions) ==
    Bind(history \o sessions, LAMBDA h :
        IF Len(h) > 2 THEN SubSeq(h, Len(h) - 1, Len(h)) ELSE h)

\* One iteration of the approach loop (lines 1222-1342): what it leaves in
\* checkpoint, allMatches, matchedTerms, fuzzyHistory, looseAttempted and
\* whether it found a match (and so breaks out of the loop).
attemptOutcome(a, n, cp, history, loose, matchesSoFar, terms) ==
    LET norm == morpoint(args.options.sensitivityLevel)
        siteId == MatchAll(<<WordB, Cls(Letters, 3, -1), Cls(Digits, 2, 5), WordB>>,
                           Trim(text.chars))
        same == [checkpoint |-> cp, fuzzyHistory |-> history, looseAttempted |-> loose,
                 allMatches |-> matchesSoFar, matchedTerms |-> terms, foundMatch |-> FALSE]
    IN
    Bind(approachPattern(a, keyword), LAMBDA pattern :
    IF pattern = <<>> THEN same                                     \* continue
    ELSE
    Bind(LowerSet(args.options.allowlist), LAMBDA allowSet :
    Bind(MatchAll(pattern, NoSpaces(converted)), LAMBDA first :
    Bind(first = <<>> /\ (a = 3 \/ loose > 0), LAMBDA special :
    Bind(IF special /\ CapAbove(norm, 2)
         THEN MatchAll(<<WordB, Cls(Letters, 2, 3), Cls(Digits, 1, 5), WordB>>,
                       combineShortWords(textFixed))
         ELSE first, LAMBDA shortId :
    Bind(IF special /\ shortId = <<>> /\ CapAbove(norm, 2)
         THEN MatchAll(<<WordB, Cls(Letters, 3, -1), Cls(Digits, 2, -1), WordB>>, textFixed)
         ELSE shortId, LAMBDA longId :
    Bind({i \in DOMAIN history : MatchAll(pattern, NoSpaces(history[i])) # <<>>},
         LAMBDA hits :
    Bind(cp + (IF special /\ shortId = <<>> /\ longId # <<>>
               THEN (approachValue(a, n) * 12) \div 10 ELSE 0)
            + (IF ~special /\ a # 4 /\ siteId # <<>> /\ CapAtLeast(norm, 4)
               THEN Pts(100) ELSE 0)
            + Pts(100) * Cardinality(hits), LAMBDA cp2 :
    IF a = 3 /\ loose > 0 THEN [same EXCEPT !.checkpoint = cp2]       \* continue
    ELSE
    Bind(IF a = 4 THEN MatchAll(pattern, processedText) ELSE longId, LAMBDA matches :
    Bind(cp2 + (IF a = 4 /\ matches # <<>> THEN Pts(30) ELSE 0), LAMBDA cp3 :
    Bind([same EXCEPT !.looseAttempted = IF a = 3 THEN loose + 1 ELSE loose], LAMBDA seen :
    IF matches # <<>>
    THEN Bind(allowFilter(matches, allowSet), LAMBDA filtered :
             IF filtered # <<>>
             THEN [seen EXCEPT
                     !.allMatches = matchesSoFar \o filtered,
                     !.matchedTerms = terms \cup {toLowerCase(m) : m \in Range(filtered)},
                     !.checkpoint = IF gateOpen(cp3) THEN cp3 + approachValue(a, n) ELSE cp3,
                     !.foundMatch = gateOpen(cp3)]
             ELSE [seen EXCEPT !.checkpoint = cp3])
    ELSE
    Bind(fuzzySearch(keywordList, textFixed, 2, 50), LAMBDA checkFuzzy :
    IF checkFuzzy # <<>>
    THEN Bind(firstAbove(<<checkFuzzy[1]>>, 700), LAMBDA best :
         Bind(IF best = <<>> THEN <<>>
              ELSE <<ReplaceFirst(textFixed, best[1].matched_word, best[1].matched_with)>>,
              LAMBDA session :
         Bind(allowFilter(IF session = <<>> THEN <<>>
                          ELSE MatchAll(pattern, NoSpaces(session[1])), allowSet),
              LAMBDA fuzzyFiltered :
             IF fuzzyFiltered # <<>>
             THEN [seen EXCEPT
                     !.allMatches = matchesSoFar \o fuzzyFiltered,
                     !.matchedTerms = terms \cup {toLowerCase(m) : m \in Range(fuzzyFiltered)},
                     !.checkpoint = IF gateOpen(cp3) THEN cp3 + Pts(80) ELSE cp3,
                     !.foundMatch = gateOpen(cp3),
                     !.fuzzyHistory = IF gateOpen(cp3) THEN history
                                      ELSE pushHistory(history, session)]
             ELSE [seen EXCEPT !.checkpoint = cp3,
                               !.fuzzyHistory = pushHistory(history, session)])))
    ELSE
    Bind(fuzzySearch(keyword, converted, 2, 50), LAMBDA checkFuzzy2 :
    Bind(firstAbove(IF checkFuzzy2 = <<>> THEN <<>> ELSE <<checkFuzzy2[1]>>, 600),
         LAMBDA best2 :
        [seen EXCEPT
            !.checkpoint = cp3 - (approachMin(a, n) - Pts(2)),
            !.fuzzyHistory = pushHistory(history,
                IF best2 = <<>> THEN <<>>
                ELSE <<ReplaceFirst(textFixed, best2[1].matched_word,
                                    best2[1].matched_with)>>)]))))))))))))))

\* one pattern approach on the converted text (lines 1222-1342)
Attempt ==
    /\ pc = "attempt"
    /\ UNCHANGED <<outer, searchStart>>
    /\ \E out \in {attemptOutcome(approach, pass, checkpoint, fuzzyHistory,
                                   looseAttempted, allMatches, matchedTerms)} :
          /\ checkpoint' = out.checkpoint
          /\ fuzzyHistory' = out.fuzzyHistory
          /\ looseAttempted' = out.looseAttempted
          /\ allMatches' = out.allMatches
          /\ matchedTerms' = out.matchedTerms
          /\ foundMatch' = out.foundMatch
          /\ IF out.foundMatch \/ approach = 4
             THEN pc' = "support" /\ approach' = approach
             ELSE pc' = "attempt" /\ approach' = approach + 1
    /\ UNCHANGED <<args, text, keyword, scorepoint, detected, analysis, textVars,
                   pass, processedText, ignore, textFixed, converted, result, ran>>

\* keywordMatches: the support keywords found in the converted text
keywordMatches(list, domains, convertedText) ==
    Bind(domains, LAMBDA domainSet : Bind(convertedText, LAMBDA convertedLower :
        SelectSeq(list, LAMBDA k :
            toLowerCase(k) \notin domainSet /\ Includes(convertedLower, toLowerCase(k)))))
\* the bonus with 0.03 for each keyword, not for each two
keywordBonusPerKeyword(count) == Min2(Pts(1500), Pts(30) * count + Pts(700))
\* keywordBonus = Math.min(1.5, 0.03 * (count / 2) + 0.7)
keywordBonus(count) == Min2(Pts(1500), Pts(15) * count + Pts(700))

\* SupportKeywords without the break of line 1379: the next depth follows a match
SupportKeywordsGoOn ==
    /\ pc = "support"
    /\ UNCHANGED <<outer, searchStart>>
    /\ IF foundMatch
       THEN \E found \in {keywordMatches(keywordList, LowerSet(args.options.domains),
                                           toLowerCase(converted))} :
               /\ checkpoint' =
                     IF Len(found) = 0 THEN checkpoint
                     ELSE IF checkpoint > Pts(450)
                     THEN checkpoint + keywordBonus(Len(found)) - Pts(200)
                     ELSE checkpoint - Pts(10)
               /\ analysis' = analysis \cup
                     Noted(IF Len(found) > 0 THEN {"supportingKeywords"} ELSE {})
               /\ detected' = TRUE
               /\ pc' = "depth"
               /\ ignore' = ignore + 1
       ELSE /\ ignore' = ignore + 1
            /\ pc' = "depth"
            /\ UNCHANGED <<checkpoint, analysis, detected>>
    /\ UNCHANGED <<args, text, keyword, scorepoint, textVars, matchVars, pass,
                   processedText, textFixed, converted, approach, foundMatch,
                   looseAttempted, result, ran>>

\* the end of one ignore iteration (lines 1344-1383)
SupportKeywords ==
    /\ pc = "support"
    /\ UNCHANGED <<outer, searchStart>>
    /\ IF foundMatch
       THEN \E found \in {keywordMatches(keywordList, LowerSet(args.options.domains),
                                           toLowerCase(converted))} :
               /\ checkpoint' =
                     IF Len(found) = 0 THEN checkpoint
                     ELSE IF checkpoint > Pts(450)
                     THEN checkpoint + keywordBonus(Len(found)) - Pts(200)
                     ELSE checkpoint - Pts(10)
               /\ analysis' = analysis \cup
                     Noted(IF Len(found) > 0 THEN {"supportingKeywords"} ELSE {})
               /\ detected' = TRUE
               /\ pc' = "metrics"
               /\ UNCHANGED ignore
       ELSE /\ ignore' = ignore + 1
            /\ pc' = "depth"
            /\ UNCHANGED <<checkpoint, analysis, detected>>
    /\ UNCHANGED <<args, text, keyword, scorepoint, textVars, matchVars, pass,
                   processedText, textFixed, converted, approach, foundMatch,
                   looseAttempted, result, ran>>

\* the verdict with isGambling set on a pattern match before the tiers are tried
verdictFlaggedOnMatch(isDetected, cp, thresholds, garbage) ==
    IF isDetected \/ cp >= thresholds.low
    THEN IF cp >= thresholds.high
         THEN [isGambling |-> TRUE, confidence |-> "high",
               details |-> "Gambling content detected with high confidence"]
         ELSE IF cp >= thresholds.medium
         THEN [isGambling |-> TRUE, confidence |-> "medium",
               details |-> "Gambling content likely detected"]
         ELSE IF cp >= thresholds.low
         THEN [isGambling |-> TRUE, confidence |-> "low",
               details |-> "Possible gambling content (manual review recommended)"]
         ELSE [isGambling |-> TRUE, confidence |-> "none",
               details |-> "No gambling content detected"]
    ELSE IF garbage
    THEN [isGambling |-> TRUE, confidence |-> "medium",
          details |-> "Suspicious content detected (excessive symbol usage)"]
    ELSE [isGambling |-> FALSE, confidence |-> "none",
          details |-> "No gambling content detected"]
\* the verdict as it would be without the branch for garbage
verdictNoFallback(isDetected, cp, thresholds, garbage) ==
    IF isDetected \/ cp >= thresholds.low
    THEN IF cp >= thresholds.high
         THEN [isGambling |-> TRUE, confidence |-> "high",
               details |-> "Gambling content detected with high confidence"]
         ELSE IF cp >= thresholds.medium
         THEN [isGambling |-> TRUE, confidence |-> "medium",
               details |-> "Gambling content likely detected"]
         ELSE IF cp >= thresholds.low
         THEN [isGambling |-> TRUE, confidence |-> "low",
               details |-> "Possible gambling content (manual review recommended)"]
         ELSE [isGambling |-> FALSE, confidence |-> "none",
               details |-> "No gambling content detected"]
    ELSE [isGambling |-> FALSE, confidence |-> "none",
          details |-> "No gambling content detected"]
\* the verdict of detect (lines 1438-1458): isGambling, confidence, details
\* (the details without the pictograph that leads them in the source)
verdict(isDetected, cp, thresholds, garbage) ==
    IF isDetected \/ cp >= thresholds.low
    THEN IF cp >= thresholds.high
         THEN [isGambling |-> TRUE, confidence |-> "high",
               details |-> "Gambling content detected with high confidence"]
         ELSE IF cp >= thresholds.medium
         THEN [isGambling |-> TRUE, confidence |-> "medium",
               details |-> "Gambling content likely detected"]
         ELSE IF cp >= thresholds.low
         THEN [isGambling |-> TRUE, confidence |-> "low",
               details |-> "Possible gambling content (manual review recommended)"]
         ELSE [isGambling |-> FALSE, confidence |-> "none",
               details |-> "No gambling content detected"]
    ELSE IF garbage
    THEN [isGambling |-> TRUE, confidence |-> "medium",
          details |-> "Suspicious content detected (excessive symbol usage)"]
    ELSE [isGambling |-> FALSE, confidence |-> "none",
          details |-> "No gambling content detected"]

\* the end of detect for the evidence a call has gathered (lines 1408-1458):
\* the checkpoint under the cap of the level, and its verdict
finalEvaluation(gathered, isDetected, garbage, level) ==
    Bind(parseNumber(gathered, morpoint(level)), LAMBDA final :
        [checkpoint |-> final,
         verdict |-> verdict(isDetected, final, confidenceThresholds(level), garbage)])

\* the checkpoint after the content metrics of step 15 (lines 1386-1406)
hasGamblingContentLength(wordCount, charCount) ==
    (wordCount >= 5 /\ wordCount <= 50) \/ (charCount >= 30 /\ charCount <= 500)
withContentMetrics(cp, wordCount, charCount) ==
    cp + (IF hasGamblingContentLength(wordCount, charCount) THEN Pts(200) ELSE 0)
       + (IF wordCount > 0 /\ charCount > 12 * wordCount THEN Pts(300) ELSE 0)

\* detect, steps 15-16 (lines 1386-1465): the content metrics, the clamp,
\* the result and its verdict
Finalize ==
    /\ pc = "metrics"
    /\ UNCHANGED <<outer, searchStart>>
    /\ \E wordCount \in {Len(Words(rawText))} :
       \E final \in {parseNumber(withContentMetrics(checkpoint, wordCount, Len(rawText)),
                                 morpoint(args.options.sensitivityLevel))} :
       \E v \in {verdict(detected, final, confidenceThresholds(args.options.sensitivityLevel),
                         hasGarbage)} :
       LET charCount == Len(rawText)
           notes == analysis \cup Noted(
                (IF hasGamblingContentLength(wordCount, charCount)
                 THEN {"contentLengthSuspicious"} ELSE {})
                \cup (IF wordCount > 0 /\ charCount > 12 * wordCount
                      THEN {"longAvgWordLength"} ELSE {}))
       IN /\ checkpoint' = final
          /\ analysis' = notes
          /\ result' = [isGambling |-> v.isGambling, confidence |-> v.confidence,
                        checkpoint |-> toFixed2(final), details |-> v.details,
                        comment |-> text,
                        analysis |-> IF args.options.includeAnalysis
                                     THEN [present |-> TRUE, flags |-> notes,
                                           matchedTerms |-> matchedTerms,
                                           allMatches |-> Dedupe(allMatches),
                                           wordCount |-> wordCount, charCount |-> charCount]
                                     ELSE NoAnalysis]
    /\ ran' = ran \cup {"metrics"}
    /\ pc' = "done"
    /\ UNCHANGED <<args, text, keyword, scorepoint, detected, textVars, matchVars,
                   scanVars>>

(***************************************************************************)
(* The callers of detect                                                   *)
(***************************************************************************)
\* a frame of detect is entered with the arguments (sample.text, options)
Invoke(sample, options) ==
    /\ pc = "idle"
    /\ args' = [text |-> sample.text, options |-> options, probes |-> sample.probes]
    /\ text' = sample.text
    /\ result' = NoResult
    /\ ran' = {}
    /\ pc' = "entry"
    /\ UNCHANGED <<locals, trial, moderator>>
\* the frame of a call that has returned is gone
Dispose ==
    /\ pc = "done"
    /\ pc' = "idle"
    /\ args' = NoArgs
    /\ text' = NullValue
    /\ result' = NoResult
    /\ ran' = {}
    /\ keyword' = <<>> /\ scorepoint' = <<>> /\ detected' = FALSE /\ checkpoint' = 0
    /\ analysis' = {} /\ rawText' = <<>> /\ keywordList' = <<>> /\ hasGarbage' = FALSE
    /\ reconstructed' = <<>> /\ merged' = <<>> /\ allMatches' = <<>>
    /\ matchedTerms' = {} /\ fuzzyHistory' = <<>> /\ pass' = 0
    /\ processedText' = <<>> /\ ignore' = 0 /\ textFixed' = <<>> /\ converted' = <<>>
    /\ approach' = 0 /\ foundMatch' = FALSE /\ looseAttempted' = 0
    /\ searchStart' = 0
    /\ UNCHANGED <<trial, moderator>>

NoTrial == [op |-> "none"]
\* history.txt does not exist
NoFile == [exists |-> FALSE, content |-> <<>>]
NoCaller == [passed |-> <<>>, first |-> <<>>]
NoBatch == [stage |-> "none", isArray |-> TRUE, items |-> <<>>, options |-> defaultOptions,
            calls |-> <<>>, results |-> <<>>]

\* a caller calls detect(text, options)
Call(sample, options) ==
    /\ batch.stage = "none"
    /\ Invoke(sample, options)
    /\ caller' = [caller EXCEPT !.passed = <<sample.text, options>>]
    /\ UNCHANGED batch
\* detect returns to its caller
Return ==
    /\ batch.stage = "none"
    /\ Dispose
    /\ caller' = [caller EXCEPT !.passed = <<>>]
    /\ UNCHANGED batch
\* detect returns to a caller that keeps the first result it gets
ReturnNoted ==
    /\ batch.stage = "none"
    /\ Dispose
    /\ caller' = [passed |-> <<>>,
                  first |-> IF caller.first = <<>> THEN <<caller.passed, result>>
                            ELSE caller.first]
    /\ UNCHANGED batch

\* detectBatch(texts, options) is called (line 1496)
BatchCall(input, options) ==
    /\ pc = "idle"
    /\ batch.stage = "none"
    /\ batch' = [stage |-> "running", isArray |-> input.isArray, items |-> input.items,
                 options |-> options, calls |-> <<>>, results |-> <<>>]
    /\ UNCHANGED <<pc, args, text, locals, result, ran, caller, trial, moderator>>
\* the text detectBatch passes to detect for an item: the item itself, or
\* String(texts) when texts is not an array (lines 1497-1501)
batchText(item, isArray) == IF isArray THEN item.text ELSE String(item.text)
\* the call as it would be with the options left out: texts.map(detect)
BatchDetectNoOptions ==
    /\ batch.stage = "running"
    /\ Len(batch.results) < Len(batch.items)
    /\ \E item \in {batch.items[Len(batch.results) + 1]} :
       \E passed \in {batchText(item, batch.isArray)} :
          /\ Invoke([text |-> passed, probes |-> item.probes], defaultOptions)
          /\ batch' = [batch EXCEPT !.calls = Append(@, <<passed, defaultOptions>>)]
    /\ UNCHANGED caller
\* detectBatch calls detect on its next item (lines 1498, 1501)
BatchDetect ==
    /\ batch.stage = "running"
    /\ Len(batch.results) < Len(batch.items)
    /\ \E item \in {batch.items[Len(batch.results) + 1]} :
       \E passed \in {batchText(item, batch.isArray)} :
          /\ Invoke([text |-> passed, probes |-> item.probes], batch.options)
          /\ batch' = [batch EXCEPT !.calls = Append(@, <<passed, batch.options>>)]
    /\ UNCHANGED caller
\* detect returns into the array of results
BatchCollect ==
    /\ batch.stage = "running"
    /\ Dispose
    /\ batch' = [batch EXCEPT !.results = Append(@, result)]
    /\ UNCHANGED caller
\* detectBatch returns its results
BatchReturn ==
    /\ batch.stage = "running"
    /\ pc = "idle"
    /\ Len(batch.results) = Len(batch.items)
    /\ batch' = [batch EXCEPT !.stage = "returned"]
    /\ UNCHANGED <<pc, args, text, locals, result, ran, caller, trial, moderator>>
\* the caller is done with the results
BatchDrop ==
    /\ batch.stage = "returned"
    /\ batch' = NoBatch
    /\ UNCHANGED <<pc, args, text, locals, result, ran, caller, trial, moderator>>

(***************************************************************************)
(* The inputs of the model                                                 *)
(***************************************************************************)
\* The word-list probes (hasSuspiciousUrlPatterns, hasSuspiciousCodeSequences,
\* analyzeEvasionTechniques, detectContextualGamblingIndicators,
\* extractContactInfos, detectLanguageSpecificPatterns) are not computed by
\* the model: a sample is a text together with what they return on it.
Quiet == [url |-> FALSE, code |-> FALSE, evasion |-> 0, contextual |-> 0,
          contact |-> FALSE, language |-> 0]
Sample(chars, probes) == [text |-> StringValue(chars), probes |-> probes]

\* values the guard of detect turns away
ShortSamples ==
    {[text |-> v, probes |-> Quiet] :
        v \in {StringValue(<<>>), StringValue(<<" ">>), StringValue(<<"a">>),
               StringValue(<<" ", "a", "\n">>), NullValue,
               NumberValue(<<"0">>), NumberValue(<<"4", "2">>)}}
\* texts the pipeline analyses
LongSamples ==
    {Sample(<<"a","b">>, Quiet),
     Sample(<<"z","e","u","s">>, Quiet),
     Sample(<<"z","e","u","z">>, Quiet),
     Sample(<<"*","*","*","*">>, Quiet),
     Sample(<<"*","*","z","e","u","s","*","*">>, Quiet),
     Sample(<<"a","b",".","c","d">>, Quiet),
     Sample(<<"z"," ","e"," ","u"," ","s">>, [Quiet EXCEPT !.evasion = Pts(600)]),
     Sample(<<"z","e","u","s","8","8">>, Quiet),
     Sample(<<"t","o","t","o">>, [Quiet EXCEPT !.language = Pts(300)]),
     Sample(<<"j","p"," ","w","d"," ","z","e","u","s">>, Quiet),
     Sample(<<"z","e","u","s",".","i","o">>, [Quiet EXCEPT !.url = TRUE]),
     Sample(<<"s","l","o","t">>, [Quiet EXCEPT !.code = TRUE, !.language = Pts(600)]),
     Sample(<<"i","g"," ","z","e","u","s">>, [Quiet EXCEPT !.contact = TRUE]),
     Sample(<<"c","s"," ","z","e","u","s">>, [Quiet EXCEPT !.contextual = Pts(30)]),
     Sample(<<"z","e","u","s","é">>, Quiet),
     Sample(<<"b","o","n","u","s","1">>, Quiet)}
Samples == ShortSamples \cup LongSamples

MaxLevel == 6
Levels == -1..MaxLevel
\* the list options a caller overrides: none, an allowlist, a blocklist
ListChoices ==
    {[allowlist |-> <<>>, domains |-> <<>>],
     [allowlist |-> << <<"z","e","u","s">> >>, domains |-> <<>>],
     [allowlist |-> <<>>, domains |-> << <<"a","b",".","c","d">> >>],
     [allowlist |-> <<>>, domains |-> << <<"a","b">> >>]}
\* the options with every detector toggle off
TogglesOff ==
    [defaultOptions EXCEPT !.detectRepetition = FALSE, !.detectUrlPatterns = FALSE,
                           !.detectEvasionTechniques = FALSE,
                           !.detectContextualIndicators = FALSE,
                           !.extractContactInfo = FALSE]
\* the options of a call: a sensitivity level, or the analysis with a list
\* choice at the default level, or every detector toggle off
OptionSets ==
    {[defaultOptions EXCEPT !.sensitivityLevel = l] : l \in Levels}
    \cup {[defaultOptions EXCEPT !.includeAnalysis = TRUE, !.allowlist = c.allowlist,
                                 !.domains = c.domains] : c \in ListChoices}
    \cup {TogglesOff}

\* no call is running and none has been made
Idle ==
    /\ pc = "idle"
    /\ args = NoArgs
    /\ text = NullValue
    /\ result = NoResult
    /\ ran = {}
    /\ ClearLocals
    /\ caller = NoCaller
    /\ batch = NoBatch
    /\ isRunning = FALSE
    /\ runs = <<>>
    /\ requests = {}
    /\ status = ""
    /\ historyFile = NoFile
    /\ appended = <<>>
Init ==
    /\ Idle
    /\ trial = NoTrial

Next ==
    \/ \E sample \in Samples, options \in OptionSets : Call(sample, options)
    \/ Enter
    \/ DetectSignals
    \/ Normalize
    \/ FuzzyStep
    \/ NextPass
    \/ NextDepth
    \/ Attempt
    \/ SupportKeywords
    \/ Finalize
    \/ Return

Spec == Init /\ [][Next]_vars

(***************************************************************************)
(* A caller that repeats calls and uses detectBatch                        *)
(***************************************************************************)
Slot == Sample(<<"s","l","o","t">>, [Quiet EXCEPT !.code = TRUE, !.language = Pts(600)])
Blank == Sample(<<" ","a","\n">>, Quiet)
\* the texts of direct calls: String(42) is one of them
CallerSamples == {Slot, Blank, Sample(<<"4","2">>, Quiet)}
\* the options of the caller: none, or a level with its own lists
CallerOptions ==
    {defaultOptions,
     [defaultOptions EXCEPT !.sensitivityLevel = 5,
                            !.supportKeywords = << <<"w","d">> >>,
                            !.domains = << <<"a","b">> >>,
                            !.allowlist = << <<"z","e","u","s">> >>]}
MaxBatch == 2
RECURSIVE SeqsUpTo(_, _)
SeqsUpTo(set, n) ==
    IF n = 0 THEN {<<>>}
    ELSE Bind(SeqsUpTo(set, n - 1), LAMBDA shorter :
             shorter \cup {Append(q, e) : q \in shorter, e \in set})
\* what detectBatch is given: an array of texts, or the number 42
BatchInputs ==
    {[isArray |-> TRUE, items |-> q] : q \in SeqsUpTo({Slot, Blank}, MaxBatch)}
    \cup {[isArray |-> FALSE, items |-> <<[text |-> NumberValue(<<"4","2">>), probes |-> Quiet]>>]}

CallerNext ==
    \/ \E sample \in CallerSamples, options \in CallerOptions : Call(sample, options)
    \/ \E input \in BatchInputs, options \in CallerOptions : BatchCall(input, options)
    \/ Enter
    \/ DetectSignals
    \/ Normalize
    \/ FuzzyStep
    \/ NextPass
    \/ NextDepth
    \/ Attempt
    \/ SupportKeywords
    \/ Finalize
    \/ ReturnNoted
    \/ BatchDetect
    \/ BatchCollect
    \/ BatchReturn
    \/ BatchDrop

CallerSpec == Init /\ [][CallerNext]_vars

(***************************************************************************)
(* The functions of the module applied on their own                        *)
(***************************************************************************)
\* everything of a detect call and of its callers
frame == <<pc, args, text, locals, result, ran, caller, batch, moderator>>
\* a function about to be applied to what it is given
Given(op, inputs) == {[op |-> op, given |-> g, done |-> FALSE, out |-> <<>>] : g \in inputs}
\* the function has been applied
Applied(op) == trial.op = op /\ trial.done

\* fuzzySearch: the lists, the queries and the thresholds it is called with
FuzzyLists ==
    {NullValue, StringValue(<<"z","e","u","s">>), ArrayValue(<<>>),
     ArrayValue(<< <<"z","e","u","s">> >>),
     ArrayValue(<< <<"z","e","u","s">>, <<"s","l","o","t">> >>),
     ArrayValue(<< <<"s","l","o","t">>, <<"z","e","u","s">>, <<"t","o","t","o">> >>)}
FuzzyQueries ==
    {NullValue, NumberValue(<<"4","2">>), StringValue(<<>>), StringValue(<<" "," ">>),
     StringValue(<<"z","e","u","s">>), StringValue(<<"z","e","u","z">>),
     StringValue(<<"s","1","o","t">>), StringValue(<<"a","b">>),
     StringValue(<<"z","e","u","z"," ","s","l","o","t">>),
     StringValue(<<"t","o","t"," ","Z","E","U","S">>)}
FuzzyInputs ==
    {[list |-> l, query |-> q, maxDistance |-> d, minScore |-> m] :
        l \in FuzzyLists, q \in FuzzyQueries, d \in {1, 2}, m \in {50, 70}}
ApplyFuzzySearch ==
    /\ trial.op = "fuzzySearch"
    /\ ~trial.done
    /\ trial' = [trial EXCEPT
                    !.done = TRUE,
                    !.out = fuzzySearchCall(trial.given.list, trial.given.query,
                                            trial.given.maxDistance, trial.given.minScore)]
    /\ UNCHANGED frame
FuzzyInit == Idle /\ trial \in Given("fuzzySearch", FuzzyInputs)
FuzzyNext == ApplyFuzzySearch
FuzzySpec == FuzzyInit /\ [][FuzzyNext]_vars

\* extractKeywordArrays: the values of a table entry, and the inputs
Zeus == <<"z","e","u","s">>
EntryValues ==
    {BooleanValue(TRUE), BooleanValue(FALSE), NullValue, UndefinedValue, NaN,
     ObjectValue(<<>>)}
    \cup {Number(n) : n \in {-1000, 0, 1, 500, 1000, 1001, 2000, 4000, 4500, 5000, 5001, 7000}}
    \cup {StringValue(c) : c \in {<<>>, <<"a","b","c">>, <<"7">>, <<"4">>, <<"4","x">>,
                                  <<"0",".","5">>, <<".","2","5">>, <<"-","1">>,
                                  <<" ","1">>, <<"3">>, <<"0">>}}
PairValues ==
    {BooleanValue(FALSE), NullValue, Number(4000), Number(250),
     StringValue(<<"0",".","5">>), StringValue(<<"a","b","c">>)}
KeywordInputs ==
    {NullValue, UndefinedValue, Number(42000), BooleanValue(TRUE),
     StringValue(Zeus), StringValue(<<" ">>), StringValue(<<>>), ArrayValue(<<>>),
     ArrayValue(<<StringValue(Zeus), StringValue(<<" ">>), StringValue(<<"s","l","o","t">>)>>),
     ArrayValue(<<NullValue, Number(7000), StringValue(Zeus),
                  ArrayValue(<<StringValue(<<"4">>), NullValue>>)>>)}
    \cup {ObjectValue(<<Entry(Zeus, v)>>) : v \in EntryValues}
    \cup {ObjectValue(<<Entry(<<"s","l","o","t">>, v), Entry(<<>>, Number(500)), Entry(Zeus, w)>>) :
             v \in PairValues, w \in PairValues}
    \cup {ArrayValue(<<ObjectValue(<<Entry(Zeus, v)>>), StringValue(<<"t","o","t","o">>),
                       ObjectValue(<<Entry(<<"b","e","t">>, w), Entry(<<"w","d">>, v)>>)>>) :
             v \in PairValues, w \in {BooleanValue(TRUE), Number(6000)}}
ApplyExtractKeywordArrays ==
    /\ trial.op = "extractKeywordArrays"
    /\ ~trial.done
    /\ trial' = [trial EXCEPT !.done = TRUE, !.out = extractKeywordArraysOf(trial.given)]
    /\ UNCHANGED frame
KeywordInit == Idle /\ trial \in Given("extractKeywordArrays", KeywordInputs)
KeywordNext == ApplyExtractKeywordArrays
KeywordSpec == KeywordInit /\ [][KeywordNext]_vars

\* the final evaluation: the checkpoints gathered, from -0.1 up in steps of
\* 0.05, and the values at and just under the thresholds of each level
MaxTwentieths == 120
ThresholdValues(level) ==
    {confidenceThresholds(level).low, confidenceThresholds(level).medium,
     confidenceThresholds(level).high}
CheckpointGrid ==
    {Pts(50) * k : k \in -2..MaxTwentieths}
    \cup UNION {{v, v - 1} : v \in UNION {ThresholdValues(l) : l \in 1..5}}
EvaluationInputs ==
    {[gathered |-> c, detected |-> d, garbage |-> g, level |-> l] :
        c \in CheckpointGrid, d \in BOOLEAN, g \in BOOLEAN, l \in Levels}
ApplyFinalEvaluation ==
    /\ trial.op = "finalEvaluation"
    /\ ~trial.done
    /\ trial' = [trial EXCEPT
                    !.done = TRUE,
                    !.out = finalEvaluation(trial.given.gathered, trial.given.detected,
                                            trial.given.garbage, trial.given.level)]
    /\ UNCHANGED frame
EvaluationInit == Idle /\ trial \in Given("finalEvaluation", EvaluationInputs)
EvaluationNext == ApplyFinalEvaluation
EvaluationSpec == EvaluationInit /\ [][EvaluationNext]_vars

\* levenshtein of fuzzySearch on pairs of words over two letters
MaxWord == 3
DistanceWords == SeqsUpTo({"a", "b"}, MaxWord)
DistanceInputs ==
    {[a |-> a, b |-> b, maxDistance |-> d] :
        a \in DistanceWords, b \in DistanceWords, d \in {1, 2}}
ApplyLevenshtein ==
    /\ trial.op = "levenshtein"
    /\ ~trial.done
    /\ trial' = [trial EXCEPT
                    !.done = TRUE,
                    !.out = levenshtein(trial.given.a, trial.given.b,
                                        trial.given.maxDistance)]
    /\ UNCHANGED frame
DistanceInit == Idle /\ trial \in Given("levenshtein", DistanceInputs)
DistanceNext == ApplyLevenshtein
DistanceSpec == DistanceInit /\ [][DistanceNext]_vars

\* reconstructSeparatedWords on words of four letters joined by separators
\* and on short texts of letters, separators and spaces, applied three times
MaxText == 5
SeparatedWords ==
    {<<a, x, b, y, c, z, d>> : a \in {"s"}, b \in {"l", "s"}, c \in {"o"}, d \in {"t", "s"},
                               x \in SepChars, y \in SepChars, z \in SepChars}
ShortTexts == SeqsUpTo({"a", ".", "_", " "}, MaxText)
ApplyReconstruct ==
    /\ trial.op = "reconstructSeparatedWords"
    /\ ~trial.done
    /\ \E once \in {reconstructSeparatedWords(trial.given)} :
       \E twice \in {reconstructSeparatedWords(once)} :
          trial' = [trial EXCEPT
                       !.done = TRUE,
                       !.out = [once |-> once, twice |-> twice,
                                thrice |-> reconstructSeparatedWords(twice)]]
    /\ UNCHANGED frame
ReconstructInit ==
    Idle /\ trial \in Given("reconstructSeparatedWords", SeparatedWords \cup ShortTexts)
ReconstructNext == ApplyReconstruct
ReconstructSpec == ReconstructInit /\ [][ReconstructNext]_vars

(***************************************************************************)
(* The moderation script (part_001): the history file                      *)
(***************************************************************************)
\* everything of the detector
detector == <<pc, args, text, locals, result, ran, caller, batch, trial>>
\* content.split('\n'): a text is a sequence of pieces, "\n" the line feed
RECURSIVE SplitLines(_)
SplitLines(content) ==
    IF \A i \in DOMAIN content : content[i] # "\n" THEN <<content>>
    ELSE Bind(CHOOSE i \in DOMAIN content :
                  content[i] = "\n" /\ \A j \in 1..(i - 1) : content[j] # "\n",
              LAMBDA at :
                  <<SubSeq(content, 1, at - 1)>>
                      \o SplitLines(SubSeq(content, at + 1, Len(content))))
\* lines.join('\n')
RECURSIVE JoinLines(_)
JoinLines(lines) ==
    IF lines = <<>> THEN <<>>
    ELSE IF Len(lines) = 1 THEN lines[1]
    ELSE lines[1] \o <<"\n">> \o JoinLines(Tail(lines))
\* Array.prototype.slice(start) for an integer start
SliceFrom(lines, start) ==
    Bind(IF start < 0 THEN Max2(Len(lines) + start, 0) ELSE Min2(start, Len(lines)),
         LAMBDA from : SubSeq(lines, from + 1, Len(lines)))
\* appendLineWithLimit(filePath, message, maxLines) (lines 191-220): the
\* file it leaves
appendLineWithLimit(file, message, maxLines) ==
    Bind(IF file.exists
         THEN SelectSeq(SplitLines(file.content), LAMBDA line : line # <<>>)
         ELSE <<>>, LAMBDA read :
    Bind(Append(read, message), LAMBDA pushed :
    Bind(IF Len(pushed) > maxLines THEN SliceFrom(pushed, 0 - maxLines) ELSE pushed,
         LAMBDA kept :
        [exists |-> TRUE, content |-> JoinLines(kept) \o <<"\n">>])))

MaxAppends == 4
MaxLines == 2
\* non-empty messages of one line
Messages == {<<"a">>, <<"b">>, <<" ">>}
\* appendLineWithLimit is called
AppendLine(message, maxLines) ==
    /\ Len(appended) < MaxAppends
    /\ historyFile' = appendLineWithLimit(historyFile, message, maxLines)
    /\ appended' = Append(appended, [message |-> message, maxLines |-> maxLines])
    /\ UNCHANGED <<detector, isRunning, runs, requests, status>>
HistoryNext == \E message \in Messages, maxLines \in 0..MaxLines : AppendLine(message, maxLines)
HistorySpec == Init /\ [][HistoryNext]_vars

(***************************************************************************)
(* The moderation script (part_001): start, reject and deleteAllComments   *)
(***************************************************************************)
MaxRuns == 2
MaxComments == 2
\* CONFIG (lines 22-28): the sensitivity level of the detection and the
\* least score of a deletion
CONFIG == [sensitivityLevel |-> 2, minScoreForDeletion |-> Pts(1600)]
\* the values of Math.random() taken (thousandths): the least, and the
\* greatest under 1
LeastRandom == 0
MostRandom == 999
\* A fetched comment: whether its text is blank, what detect gathers for its
\* text at the level of the script (the checkpoint before the cap, whether a
\* pattern matched), and the two values Math.random() returns when its score
\* is computed
Comment(blank, gathered, isDetected, r1, r2) ==
    [blank |-> blank, gathered |-> gathered, detected |-> isDetected,
     random |-> <<r1, r2>>]
\* a blank comment, a clean one ("hello there": 0, no match) with the
\* greatest random terms, one of low confidence ("zeus": 0.71 on a match)
\* with the least, one of medium ("slot": 1.4) and one of high ("judi": 1.71)
CommentSamples ==
    {Comment(TRUE, 0, FALSE, LeastRandom, LeastRandom),
     Comment(FALSE, 0, FALSE, MostRandom, MostRandom),
     Comment(FALSE, Pts(710), TRUE, LeastRandom, LeastRandom),
     Comment(FALSE, Pts(1400), TRUE, LeastRandom, LeastRandom),
     Comment(FALSE, Pts(1710), TRUE, LeastRandom, LeastRandom)}
\* what fetchComments resolves to: up to MaxComments comments
FetchedLists == SeqsUpTo(CommentSamples, MaxComments)
\* GB.GamblingDetector.detect(comment.text, detectionConfig) (line 395): the
\* fields of the result the script reads
detectComment(comment) ==
    Bind(finalEvaluation(comment.gathered, comment.detected, FALSE, CONFIG.sensitivityLevel),
         LAMBDA e : [isGambling |-> e.verdict.isGambling,
                     confidence |-> e.verdict.confidence,
                     checkpoint |-> toFixed2(e.checkpoint)])
\* /high|medium/i.test(confidence) and confidence.match(/high|medium/gi)
highOrMedium(confidence) == confidence \in {"high", "medium"}
\* the score of the moderation loop (lines 397-400), in score units:
\* Math.random() * (0.3 - 0.2) + 0.21 and Math.random() * (0.5 - 0.2) + 0.3
\* for a value of Math.random() in thousandths
deletionScore(found, random) ==
    (IF found.isGambling THEN Pts(1000) ELSE 3 * random[1] + Pts(210))
        + (IF highOrMedium(found.confidence) THEN Pts(1000) ELSE 9 * random[2] + Pts(300))
        + (IF found.checkpoint > Pts(600) THEN Pts(500) ELSE Pts(500))
\* score > CONFIG.minScoreForDeletion (line 409), for a comment that is
\* not blank (line 390)
sentForDeletion(comment) ==
    ~comment.blank
        /\ deletionScore(detectComment(comment), comment.random) > CONFIG.minScoreForDeletion
\* the flag rule of the test harness (part_003 lines 64-71)
wouldFlag(found) ==
    (IF found.isGambling THEN Pts(1000) ELSE 0)
        + (IF highOrMedium(found.confidence) THEN Pts(1000) ELSE 0)
        + (IF found.checkpoint > Pts(600) THEN Pts(500) ELSE 0)
        > Pts(1600)

\* A run that start() began: where it waits ("input" for getUserInput,
\* "read" for fs.readFile, "fetch" for fetchComments, "deleting" for
\* deleteComment, "delay" for the pause after a deletion, "ended"), the
\* comments fetched, the comment at hand, and two records of what happened:
\* whether reject() was called while the run was under way, and whether
\* isRunning was false when the run ended. (deletedCount only feeds the log.)
NewRun == [stage |-> "input", comments |-> <<>>, index |-> 0,
           rejected |-> FALSE, reset |-> FALSE]
Ended(run, running) ==
    [run EXCEPT !.stage = "ended", !.comments = <<>>, !.index = 0, !.reset = ~running]
Live(r) == r \in DOMAIN runs /\ runs[r].stage # "ended"
\* the line a run writes to history.txt (line 429): the time, the platform
\* and the id, one line per run here
historyLine(r) == IF r = 1 THEN <<"a">> ELSE <<"b">>

\* The for loop of deleteAllComments from the comment after `from` up to
\* its next await or its end (lines 382-424), isRunning being `running`: the
\* loop is "cancelled" at a comment, sends the comment for deletion
\* ("delete"), or is "completed"
RECURSIVE loopFrom(_, _, _)
loopFrom(comments, from, running) ==
    IF from >= Len(comments) THEN [stop |-> "completed", index |-> from]
    ELSE IF ~running THEN [stop |-> "cancelled", index |-> from + 1]
    ELSE IF sentForDeletion(comments[from + 1]) THEN [stop |-> "delete", index |-> from + 1]
    ELSE loopFrom(comments, from + 1, running)

\* authorize as it would be if it left isRunning alone
authorizeKeepsRunning(credentials, running) ==
    IF ~credentials.access_token /\ ~credentials.api_key
    THEN [callback |-> FALSE, isRunning |-> running]
    ELSE [callback |-> TRUE, isRunning |-> running]
\* authorize(platform, credentials, id, callback) (lines 286-296): whether
\* the callback is called, and isRunning after it
authorize(credentials, running) ==
    IF ~credentials.access_token /\ ~credentials.api_key
    THEN [callback |-> FALSE, isRunning |-> FALSE]
    ELSE [callback |-> TRUE, isRunning |-> running]

\* start() (lines 228-236); status keeps what start() or reject() said last
Start ==
    /\ IF isRunning
       THEN /\ status' = "Process already running"
            /\ UNCHANGED <<isRunning, runs>>
       ELSE /\ Len(runs) < MaxRuns
            /\ isRunning' = TRUE
            /\ runs' = Append(runs, NewRun)
            /\ status' = "Starting moderation process"
    /\ UNCHANGED <<detector, requests, historyFile, appended>>

\* reject() (lines 440-449)
Reject ==
    /\ IF ~isRunning
       THEN /\ status' = "Nothing to reject"
            /\ UNCHANGED <<isRunning, runs>>
       ELSE /\ isRunning' = FALSE
            /\ runs' = [r \in DOMAIN runs |->
                           IF Live(r) THEN [runs[r] EXCEPT !.rejected = TRUE] ELSE runs[r]]
            /\ status' = "Moderation rejected"
    /\ UNCHANGED <<detector, requests, historyFile, appended>>

\* what getUserInput() settles with
InputOutcomes == {"empty id", "unsupported platform", "no credentials", "failed", "given"}
\* getUserInput() settles: the then and catch callbacks of start()
\* (lines 238-283)
InputSettled(r, outcome) ==
    /\ Live(r)
    /\ runs[r].stage = "input"
    /\ IF outcome = "given"
       THEN /\ runs' = [runs EXCEPT ![r].stage = "read"]
            /\ UNCHANGED isRunning
       ELSE /\ isRunning' = FALSE
            /\ runs' = [runs EXCEPT ![r] = Ended(runs[r], FALSE)]
    /\ UNCHANGED <<detector, requests, status, historyFile, appended>>

\* what fs.readFile calls back with: an error, content that is not JSON,
\* or credentials with or without access_token and api_key
ReadOutcomes ==
    {[kind |-> "error"], [kind |-> "malformed"]}
        \cup {[kind |-> "credentials", access_token |-> t, api_key |-> k] :
                 t \in BOOLEAN, k \in BOOLEAN}
\* the callback of fs.readFile (lines 262-277), authorize, and
\* deleteAllComments up to its await of fetchComments (lines 350-367)
CredentialsRead(r, outcome) ==
    /\ Live(r)
    /\ runs[r].stage = "read"
    /\ IF outcome.kind = "credentials"
       THEN \E a \in {authorize(outcome, isRunning)} :
               /\ isRunning' = a.isRunning
               /\ runs' = [runs EXCEPT ![r] = IF a.callback
                                                THEN [runs[r] EXCEPT !.stage = "fetch"]
                                                ELSE Ended(runs[r], a.isRunning)]
       ELSE /\ isRunning' = FALSE
            /\ runs' = [runs EXCEPT ![r] = Ended(runs[r], FALSE)]
    /\ UNCHANGED <<detector, requests, status, historyFile, appended>>

\* deleteAllComments goes on with its loop after comment `from` of run r
\* (lines 382-437): to the next deleteComment, to a cancellation, or to the
\* end, where the history line is written; the finally block resets
\* isRunning on both ways out
Proceed(r, comments, from) ==
    \E step \in {loopFrom(comments, from, isRunning)} :
       /\ IF step.stop = "delete"
          THEN /\ runs' = [runs EXCEPT ![r].stage = "deleting", ![r].comments = comments,
                                       ![r].index = step.index]
               /\ requests' = requests \cup
                                 {[run |-> r, index |-> step.index,
                                   comment |-> comments[step.index],
                                   rejected |-> runs[r].rejected]}
               /\ UNCHANGED <<isRunning, historyFile, appended>>
          ELSE /\ isRunning' = FALSE
               /\ runs' = [runs EXCEPT ![r] = Ended(runs[r], FALSE)]
               /\ UNCHANGED requests
               /\ IF step.stop = "completed"
                  THEN /\ historyFile' = appendLineWithLimit(historyFile, historyLine(r), 28)
                       /\ appended' = Append(appended, [message |-> historyLine(r),
                                                        maxLines |-> 28])
                  ELSE UNCHANGED <<historyFile, appended>>
       /\ UNCHANGED <<detector, status>>

\* fetchComments settles (lines 367-381): it throws, or resolves to a list
FetchSettled(r, failed, comments) ==
    /\ Live(r)
    /\ runs[r].stage = "fetch"
    /\ IF failed \/ comments = <<>>
       THEN /\ isRunning' = FALSE
            /\ runs' = [runs EXCEPT ![r] = Ended(runs[r], FALSE)]
            /\ UNCHANGED <<detector, requests, status, historyFile, appended>>
       ELSE Proceed(r, comments, 0)

\* deleteComment settles (lines 415-422), with true or with false: the run
\* goes on to its delay either way
DeleteSettled(r) ==
    /\ Live(r)
    /\ runs[r].stage = "deleting"
    /\ runs' = [runs EXCEPT ![r].stage = "delay"]
    /\ UNCHANGED <<detector, isRunning, requests, status, historyFile, appended>>

\* delay(CONFIG.deletionDelay) settles (line 422) and the loop goes on
DelaySettled(r) ==
    /\ Live(r)
    /\ runs[r].stage = "delay"
    /\ Proceed(r, runs[r].comments, runs[r].index)

\* a step of run r: one of its promises or callbacks settles
Settle(r) ==
    \/ \E outcome \in InputOutcomes : InputSettled(r, outcome)
    \/ \E outcome \in ReadOutcomes : CredentialsRead(r, outcome)
    \/ \E failed \in BOOLEAN, comments \in FetchedLists : FetchSettled(r, failed, comments)
    \/ DeleteSettled(r)
    \/ DelaySettled(r)
ModerationNext ==
    \/ Start
    \/ Reject
    \/ \E r \in 1..MaxRuns : Settle(r)
ModerationSpec == Init /\ [][ModerationNext]_vars
\* every fetch, delete and delay, the prompt and the reading of the
\* credentials settle in the end
ModerationLiveSpec == ModerationSpec /\ \A r \in 1..MaxRuns : WF_vars(Settle(r))

(***************************************************************************)
(* Calls that differ in includeAnalysis only: a caller keeps the first     *)
(* result it gets and calls again.                                         *)
(***************************************************************************)
\* texts with and without the signs the analysis notes
AnalysisSamples ==
    {Sample(<<"z","e","u","s">>, Quiet),
     Sample(<<"z"," ","e"," ","u"," ","s">>, [Quiet EXCEPT !.evasion = Pts(600)]),
     Sample(<<"*","*","*","*">>, Quiet)}
\* the options of these calls: two levels, with and without the analysis
AnalysisOptions ==
    {[defaultOptions EXCEPT !.sensitivityLevel = l, !.includeAnalysis = b] :
        l \in {3, 5}, b \in BOOLEAN}

AnalysisNext ==
    \/ \E sample \in AnalysisSamples, options \in AnalysisOptions : Call(sample, options)
    \/ Enter
    \/ DetectSignals
    \/ Normalize
    \/ FuzzyStep
    \/ NextPass
    \/ NextDepth
    \/ Attempt
    \/ SupportKeywords
    \/ Finalize
    \/ ReturnNoted

AnalysisSpec == Init /\ [][AnalysisNext]_vars

(***************************************************************************)
(* Properties of detect                                                    *)
(***************************************************************************)
\* the call has run the pipeline to its end
Finished == pc = "done" /\ "metrics" \in ran
Thresholds == confidenceThresholds(args.options.sensitivityLevel)
\* the confidence of a flagged result whose checkpoint is cp
TierOf(cp) ==
    IF cp >= Thresholds.high THEN "high"
    ELSE IF cp >= Thresholds.medium THEN "medium"
    ELSE "low"

\* C1: when a checkpoint-gated pattern match fired (detected) or the final
\* clamped checkpoint reaches the low threshold, the result is flagged, with
\* confidence high, medium or low as its checkpoint reaches the high, the
\* medium or only the low threshold; at every sensitivity level.
C1_FlaggedWhenDetectedOrScored ==
    (Finished /\ (detected \/ checkpoint >= Thresholds.low)) =>
        (result.isGambling /\ result.confidence = TierOf(checkpoint))

\* the input is empty, not a string, or under two characters once trimmed
ShortInput == args.text.type # "string" \/ Len(Trim(args.text.chars)) < 2
\* C2: a call on an input that is empty, not a string, or shorter than two
\* characters once trimmed goes from its entry straight to its return: not
\* flagged, confidence none, checkpoint 0, no stage run, whatever the options.
C2_ShortInputTurnedAway ==
    (ShortInput /\ pc \notin {"idle", "entry"}) =>
        /\ pc = "done"
        /\ ran = {}
        /\ result.isGambling = FALSE
        /\ result.confidence = "none"
        /\ result.checkpoint = 0
\* a string of three characters that trims to one has been turned away, at
\* a level other than the default
C2_TrimmedToOneTurnedAway ==
    /\ pc = "done"
    /\ args.text.type = "string"
    /\ Len(args.text.chars) = 3
    /\ Len(Trim(args.text.chars)) = 1
    /\ args.options.sensitivityLevel = 5
    /\ result.confidence = "none"

\* the cap of the checkpoint at a sensitivity level up to 5
SensitivityCap(level) == IF level <= 0 THEN 0 ELSE 6 - level
\* C3: at an integer sensitivity level up to 5 the checkpoint of the result
\* lies between 0 and the cap of the level: 5, 4, 3, 2, 1 for the levels 1
\* to 5 and 0 for a level of 0 or less.
C3_CheckpointWithinCap ==
    (pc = "done" /\ args.options.sensitivityLevel <= 5) =>
        /\ 0 <= result.checkpoint
        /\ result.checkpoint <= Pts(1000) * SensitivityCap(args.options.sensitivityLevel)
\* a call whose score went over the cap of its level returned the cap
C3_ClampedToCap ==
    /\ Finished
    /\ args.options.sensitivityLevel \in 1..5
    /\ result.checkpoint = Pts(1000) * SensitivityCap(args.options.sensitivityLevel)

\* C4: the thresholds of every sensitivity level are ordered: low is at
\* most medium and medium at most high.
C4_ThresholdsOrdered ==
    pc # "idle" =>
        (Thresholds.low <= Thresholds.medium /\ Thresholds.medium <= Thresholds.high)
\* a call at a level above 5, where medium is over the floor 1.2 of high
C4_MediumOverFloorOfHigh ==
    /\ pc = "done"
    /\ args.options.sensitivityLevel > 5
    /\ Thresholds.medium > Pts(1200)
    /\ Thresholds.medium < Thresholds.high

\* C5: when the garbage detector fired, no gated pattern match fired and the
\* final checkpoint is under the low threshold, the result is flagged with
\* confidence medium.
C5_GarbageFallback ==
    (Finished /\ hasGarbage /\ ~detected /\ checkpoint < Thresholds.low) =>
        (result.isGambling /\ result.confidence = "medium")
\* a call on garbage that matched nothing and scored under the low threshold
\* returned medium
C5_GarbageFlaggedMedium ==
    /\ Finished
    /\ hasGarbage
    /\ ~detected
    /\ checkpoint < Thresholds.low
    /\ result.isGambling
    /\ result.confidence = "medium"

\* the matches of the approach at hand in the text of the pass: those of the
\* tiny pattern in the processed text, those of the other patterns in the
\* converted text without its spaces
AttemptMatches ==
    MatchAll(approachPattern(approach, keyword),
             IF approach = 4 THEN processedText ELSE NoSpaces(converted))
\* the approach at hand matches, and each of its matches is in the allowlist
OnlyAllowlisted ==
    Bind(AttemptMatches, LAMBDA found :
        found # <<>> /\ allowFilter(found, LowerSet(args.options.allowlist)) = <<>>)
\* nothing else of the attempt adds to the checkpoint: no earlier fuzzy
\* session to match and no site identifier in the text
NoOtherEvidence ==
    /\ fuzzyHistory = <<>>
    /\ MatchAll(<<WordB, Cls(Letters, 3, -1), Cls(Digits, 2, 5), WordB>>,
                Trim(text.chars)) = <<>>
\* C6: a pattern match that equals an entry of the allowlist, whatever its
\* case, has no effect on the evidence: an attempt whose matches are all
\* allowlisted adds nothing to allMatches or matchedTerms, finds no match
\* and does not raise the checkpoint, at any pass and for any pattern.
C6_AllowlistedMatchHasNoEffect ==
    [][(pc = "attempt" /\ NoOtherEvidence /\ OnlyAllowlisted) =>
          /\ checkpoint' <= checkpoint
          /\ allMatches' = allMatches
          /\ matchedTerms' = matchedTerms
          /\ ~foundMatch']_vars

\* the text passed to detect contains a domain of the blocklist
ContainsBlockedDomain ==
    /\ args.text.type = "string"
    /\ \E i \in DOMAIN args.options.domains :
          Includes(toLowerCase(args.text.chars), toLowerCase(args.options.domains[i]))
\* C7: a call on a text that contains a domain of the blocklist notes
\* blockedDomainDetected in its analysis (the note that goes with the 0.57
\* added to the checkpoint), also for a domain with a period in it.
C7_BlockedDomainNoted ==
    (Finished /\ args.options.includeAnalysis /\ ContainsBlockedDomain) =>
        "blockedDomainDetected" \in result.analysis.flags

\* every detector toggle of the options is off
AllTogglesOff ==
    /\ ~args.options.detectRepetition
    /\ ~args.options.detectUrlPatterns
    /\ ~args.options.detectEvasionTechniques
    /\ ~args.options.detectContextualIndicators
    /\ ~args.options.extractContactInfo
\* C13: every signal detector can be switched off through the options: with
\* all detector toggles off, the signal detectors of steps 1 to 7 (garbage
\* ratio, repetition, URL, code sequences, evasion, contextual, contact
\* information) leave the checkpoint as it was.
C13_TogglesSwitchDetectorsOff ==
    [][(pc = "signals" /\ AllTogglesOff) => checkpoint' = checkpoint]_vars

\* the steps of the multi-pass pattern search, and the step that follows it
SearchSteps == {"pass", "depth", "attempt", "support", "metrics"}
\* C15: pattern matches alone do not trigger detection: when the search
\* began with a checkpoint of at most 0.5, the search has not raised the
\* checkpoint above the value it began with and has not set detected, at any
\* pass, depth or family.
C15_PatternsAloneDoNotDetect ==
    (pc \in SearchSteps /\ searchStart <= Pts(500)) =>
        (~detected /\ checkpoint <= searchStart)

\* the number of the family attempt at hand, counted over the whole search
AttemptNumber == (pass - 1) * 28 + ignore * 4 + approach
\* the families of one depth are tried in the order standard, custom, loose, tiny
FamiliesInOrder ==
    (pc = "attempt" /\ pc' = "attempt") =>
        (~foundMatch' /\ AttemptNumber' = AttemptNumber + 1 /\ approach < 4)
\* a depth begins with the standard family, depth 0 at the head of a pass
\* and depth d + 1 when the four families of depth d have matched nothing
DepthsInOrder ==
    /\ (pc = "depth" /\ pc' = "attempt") =>
          (approach' = 1 /\ ignore' = ignore /\ pass' = pass)
    /\ (pc = "support" /\ pc' = "depth") =>
          (~foundMatch /\ approach = 4 /\ ignore' = ignore + 1 /\ pass' = pass)
    /\ (pc = "pass" /\ pc' = "depth") => (ignore' = 0 /\ pass' = pass)
\* a pass follows the seventh depth of the pass before it
PassesInOrder ==
    /\ (pc = "fuzzy" /\ pc' = "pass") => pass' = 1
    /\ (pc = "depth" /\ pc' = "pass") => (ignore = 7 /\ pass' = pass + 1)
    /\ (pc = "pass" /\ pc' = "metrics") => pass = 4
\* a family is attempted only from the head of its depth or after the family
\* before it, and the converter of a pass is the one declared for it
OnlyForward ==
    /\ pc' = "attempt" => pc \in {"depth", "attempt"}
    /\ pc' = "depth" => pc \in {"pass", "support"}
    /\ pc' = "pass" => pc \in {"fuzzy", "depth"}
    /\ (pc = "pass" /\ pc' = "depth") =>
          processedText' =
             CASE pass = 1 -> merged
               [] pass = 2 -> cleanWeirdPatterns(merged)
               [] pass = 3 -> combineShortWords(cleanWeirdPatterns(merged))
\* the first checkpoint-gated match ends the search: the family weight (or
\* the 0.08 of a match on the fuzzy replacement) has been added once, and no
\* family, depth or pass follows
MatchEndsSearch ==
    /\ (pc = "attempt" /\ foundMatch') =>
          (~foundMatch /\ ~detected /\ pc' = "support" /\
           checkpoint' > checkpoint)
    /\ (pc = "support" /\ foundMatch) => (pc' = "metrics" /\ detected')
    /\ (pc = "metrics") => pc' = "done"
C16_AllFamiliesAttempted ==
    /\ pc = "support" /\ AttemptNumber = 84 /\ ~foundMatch /\ ~detected
C21_FlaggedIffGraded ==
    pc = "done" => (result.isGambling <=> result.confidence # "none")
\* a call whose search matched and whose checkpoint ended under the low
\* threshold returned an unflagged result without a confidence
C21_MatchedUnderLowUnflagged ==
    /\ Finished
    /\ detected
    /\ result.checkpoint < Thresholds.low
    /\ ~result.isGambling
    /\ result.confidence = "none"

\* the number of support keywords, none of them a blocked domain, that occur
\* in the converted text of the depth at hand
SupportCount ==
    Len(SelectSeq(keywordList, LAMBDA k :
            toLowerCase(k) \notin LowerSet(args.options.domains)
            /\ Includes(toLowerCase(converted), toLowerCase(k))))
\* min(1.5, 0.03 * (n / 2) + 0.7) - 0.2
ClaimedBonus(n) ==
    (IF Pts(15) * n + Pts(700) > Pts(1500) THEN Pts(1500) ELSE Pts(15) * n + Pts(700))
        - Pts(200)
C23_FailedAttemptPenalty ==
    [][(/\ pc = "attempt"
        /\ AttemptMatches = <<>>
        /\ NoOtherEvidence
        /\ allMatches' = allMatches
        /\ ~foundMatch') =>
            checkpoint' = checkpoint - (approachMin(approach, pass) - Pts(2))]_vars

\* the two newest of a history, in the order they were added
Newest(h) == IF Len(h) > 2 THEN <<h[Len(h) - 1], h[Len(h)]>> ELSE h
\* C24: whenever a family attempt consults the fuzzy history it holds two
\* variants at most, the most recently added ones in the order they were
\* added: an attempt leaves the history as it was or adds a variant at its
\* end and drops all but the two newest, and no other step of the search
\* touches it, through all passes and depths of a call.
C24_HistoryOfLastTwo ==
    [][/\ pc' = "attempt" => Len(fuzzyHistory') <= 2
       /\ pc = "attempt" =>
             \/ fuzzyHistory' = fuzzyHistory
             \/ /\ fuzzyHistory' # <<>>
                /\ fuzzyHistory' =
                      Newest(Append(fuzzyHistory, fuzzyHistory'[Len(fuzzyHistory')]))
       /\ pc \in {"pass", "depth", "support"} => fuzzyHistory' = fuzzyHistory]_vars
\* an attempt consults a history of two different variants
C24_TwoVariantsKept ==
    /\ pc = "attempt"
    /\ Len(fuzzyHistory) = 2
    /\ fuzzyHistory[1] # fuzzyHistory[2]

\* C26: morpoint returns 0 for every input below 0 and for every input
\* above 5, so that at a sensitivity level outside 0..5 the cap is 0 and
\* the checkpoint detect returns is 0.
C26_OutOfRangeLevelCapsAtZero ==
    (Finished /\ args.options.sensitivityLevel \notin 0..5) =>
        /\ morpoint(args.options.sensitivityLevel) = [defined |-> TRUE, value |-> 0]
        /\ result.checkpoint = 0

(***************************************************************************)
(* Properties of the callers                                               *)
(***************************************************************************)
\* the text and the options of the call at hand
CallKey == <<args.text, args.options>>
\* the first direct call has returned, and its text and options are key
Remembered(key) == caller.first # <<>> /\ caller.first[1] = key

PassedOptions == IF batch.stage = "running" THEN batch.options ELSE caller.passed[2]
\* C9: detect keeps nothing from one call to the next: a call with the text
\* and the options of an earlier call returns the result of that call,
\* whatever calls ran in between; and a call leaves the keywords,
\* supportKeywords, domains and allowlist of its caller as they were.
C9_NoStateAcrossCalls ==
    /\ (pc = "done" /\ Remembered(CallKey)) => result = caller.first[2]
    /\ pc # "idle" =>
          /\ args.options.keywords = PassedOptions.keywords
          /\ args.options.supportKeywords = PassedOptions.supportKeywords
          /\ args.options.domains = PassedOptions.domains
          /\ args.options.allowlist = PassedOptions.allowlist
\* a call inside a batch repeats the direct call remembered, with lists of
\* its own, after a call that returned something else
C9_RepeatedAfterAnotherCall ==
    /\ pc = "done"
    /\ Remembered(CallKey)
    /\ batch.stage = "running"
    /\ Len(batch.results) = 1
    /\ batch.results[1] # caller.first[2]
    /\ args.options.supportKeywords # <<>>
    /\ "metrics" \in ran
    /\ result = caller.first[2]

\* C10: the comment of every result is the input as it was passed to detect,
\* also when a fuzzy match of a keyword against the input was found.
C10_CommentIsInput ==
    pc = "done" => result.comment = args.text

\* the options are the same but for includeAnalysis
SameButAnalysis(o1, o2) ==
    [o1 EXCEPT !.includeAnalysis = TRUE] = [o2 EXCEPT !.includeAnalysis = TRUE]
\* C17: includeAnalysis only adds the analysis field: a call returns the
\* isGambling, confidence and checkpoint of the call remembered when the two
\* have the same text and options that differ in includeAnalysis at most.
C17_AnalysisOnlyAddsField ==
    (/\ pc = "done"
     /\ caller.first # <<>>
     /\ caller.first[1][1] = args.text
     /\ SameButAnalysis(caller.first[1][2], args.options)) =>
        /\ result.isGambling = caller.first[2].isGambling
        /\ result.confidence = caller.first[2].confidence
        /\ result.checkpoint = caller.first[2].checkpoint

(***************************************************************************)
(* Properties of the functions                                             *)
(***************************************************************************)
\* C11: fuzzySearch throws a TypeError when the list is no array or the
\* query is no string and returns nothing for a blank query; what it returns
\* otherwise are entries whose distance is at most maxDistance and whose
\* score is at least minScore, the score never rising from one entry to the
\* next.
C11_FuzzySearchResults ==
    Applied("fuzzySearch") =>
        LET g == trial.given
            typed == g.list.type = "array" /\ g.query.type = "string"
            found == trial.out.value
        IN /\ trial.out.threw = IF typed THEN "none" ELSE "TypeError"
           /\ (typed /\ Trim(g.query.chars) = <<>>) => found = <<>>
           /\ \A i \in DOMAIN found :
                 /\ levenshtein(found[i].matched_word, normalize(found[i].matched_with),
                                g.maxDistance) <= g.maxDistance
                 /\ found[i].score >= 10 * g.minScore
           /\ \A i \in 1..(Len(found) - 1) : found[i].score >= found[i + 1].score
\* a search over two words and three items returned entries of different
\* scores and left others out
C11_SomeKeptSomeLeftOut ==
    /\ Applied("fuzzySearch")
    /\ trial.out.threw = "none"
    /\ Len(trial.given.list.items) = 3
    /\ Len(trial.out.value) \in 2..5
    /\ trial.out.value[1].score > trial.out.value[Len(trial.out.value)].score

\* the weight the rule gives a number held in thousandths
RuleWeight(milli) ==
    IF milli > 5000 THEN Pts(1000)
    ELSE IF milli = 4000 THEN Pts(400)
    ELSE IF milli \in 0..1000 THEN Pts(milli)
    ELSE Pts(1000)
\* the weight the rule gives the value of an entry
ClaimedWeight(val) ==
    CASE val.type = "boolean" -> IF val.bool THEN Pts(1000) ELSE 0
      [] val.type = "number" -> IF val.nan THEN Pts(1000) ELSE RuleWeight(val.milli)
      [] val.type = "string" ->
           IF parseFloat(val.chars).nan THEN Pts(1000)
           ELSE RuleWeight(parseFloat(val.chars).milli)
      [] val.type \in {"null", "undefined"} -> 0
      [] OTHER -> Pts(1000)
\* the terms of an input with their weights, in the order of the input: a
\* bare string that is not blank is a term of weight 1, an entry of a
\* mapping with a key is a term with the weight of its value
TermsOfItem(item) ==
    CASE item.type = "string" ->
           IF Trim(item.chars) = <<>> THEN <<>> ELSE <<<<item.chars, Pts(1000)>>>>
      [] item.type \in {"object", "array"} ->
           LET es == entriesOf(item)
           IN [i \in DOMAIN SelectSeq(es, LAMBDA e : e.key # <<>>) |->
                 <<SelectSeq(es, LAMBDA e : e.key # <<>>)[i].key,
                   ClaimedWeight(SelectSeq(es, LAMBDA e : e.key # <<>>)[i].val)>>]
      [] OTHER -> <<>>
TermsOf(input) ==
    IF input.type = "array"
    THEN Flatten([i \in DOMAIN input.items |-> TermsOfItem(input.items[i])])
    ELSE IF input.type \in {"string", "object"} THEN TermsOfItem(input)
    ELSE <<>>
\* C14: extractKeywordArrays returns the terms and the weights of its input
\* as two sequences of one length, in the order of the input, for a bare
\* string, an array of strings and objects, a mapping and null; every
\* weight is between 0 and 1 and follows the rule: 1 or 0 for a boolean, 1
\* for a number over 5, 0.4 for 4, the number itself from 0 to 1, 1 for any
\* other number, the same for a string that is a number, 0 for null and
\* undefined, 1 for a bare string.
C14_KeywordArrays ==
    Applied("extractKeywordArrays") =>
        LET terms == TermsOf(trial.given)
        IN /\ Len(trial.out.keys) = Len(trial.out.values)
           /\ trial.out.keys = [i \in DOMAIN terms |-> terms[i][1]]
           /\ trial.out.values = [i \in DOMAIN terms |-> terms[i][2]]
           /\ \A i \in DOMAIN trial.out.values : trial.out.values[i] \in 0..Pts(1000)
\* an array of two objects and a string gave four terms, with weights under
\* 1 among them
C14_FourTermsOfMixedWeights ==
    /\ Applied("extractKeywordArrays")
    /\ trial.given.type = "array"
    /\ Len(trial.out.keys) = 4
    /\ trial.out.values[1] = Pts(400)
    /\ trial.out.values[2] = Pts(1000)
    /\ trial.out.values[4] = Pts(400)

\* C12: a lower sensitivity level is never stricter: for the same evidence
\* (checkpoint before the cap, detected, garbage), a result flagged at a
\* level from 2 to 5 is flagged at the level below it as well.
C12_LowerLevelNeverStricter ==
    (Applied("finalEvaluation") /\ trial.given.level \in 2..5
        /\ trial.out.verdict.isGambling) =>
        finalEvaluation(trial.given.gathered, trial.given.detected, trial.given.garbage,
                        trial.given.level - 1).verdict.isGambling
\* evidence over the cap of level 5 is flagged at level 5, on its checkpoint
C12_FlaggedAtStrictestLevel ==
    /\ Applied("finalEvaluation")
    /\ trial.given.level = 5
    /\ trial.given.gathered > Pts(1000)
    /\ ~trial.given.garbage
    /\ trial.out.checkpoint = Pts(1000)
    /\ trial.out.verdict.isGambling

\* the optimal string alignment distance of the first i letters of a and the
\* first j letters of b: insertion, deletion, substitution and the
\* transposition of two adjacent letters cost 1 each
RECURSIVE Alignment(_, _, _, _)
Alignment(a, b, i, j) ==
    IF i = 0 THEN j
    ELSE IF j = 0 THEN i
    ELSE Bind(Min2(Min2(Alignment(a, b, i - 1, j) + 1, Alignment(a, b, i, j - 1) + 1),
                   Alignment(a, b, i - 1, j - 1) + (IF a[i] = b[j] THEN 0 ELSE 1)),
              LAMBDA edits :
                  IF i > 1 /\ j > 1 /\ a[i] = b[j - 1] /\ a[i - 1] = b[j]
                  THEN Min2(edits, Alignment(a, b, i - 2, j - 2) + 1)
                  ELSE edits)
\* C18: the distance fuzzySearch computes is the optimal string alignment
\* distance (the distance of ab and ba is 1) when the lengths of the two words
\* differ by maxDistance at most, and maxDistance + 1 when they differ by more.
C18_DistanceIsAlignment ==
    Applied("levenshtein") =>
        trial.out =
            IF Abs(Len(trial.given.a) - Len(trial.given.b)) > trial.given.maxDistance
            THEN trial.given.maxDistance + 1
            ELSE Alignment(trial.given.a, trial.given.b,
                           Len(trial.given.a), Len(trial.given.b))
\* C18 for the words ab and ba alone
C18_TransposedPair ==
    (Applied("levenshtein") /\ trial.given.a = <<"a", "b">> /\ trial.given.b = <<"b", "a">>) =>
        trial.out = 1

\* the place of a confidence in the order none < low < medium < high
Rank(confidence) ==
    CASE confidence = "none" -> 0
      [] confidence = "low" -> 1
      [] confidence = "medium" -> 2
      [] confidence = "high" -> 3
\* the evaluation of other evidence with the flags and the level of the one applied
Beside(gathered) ==
    finalEvaluation(gathered, trial.given.detected, trial.given.garbage, trial.given.level)
\* C19: for a fixed sensitivity level and fixed detected and garbage flags
\* the confidence is monotone in the final checkpoint: an evaluation whose
\* final checkpoint is at least that of another has a confidence at least
\* as high.
C19_TierMonotoneInCheckpoint ==
    Applied("finalEvaluation") =>
        \A gathered \in CheckpointGrid :
            Beside(gathered).checkpoint >= trial.out.checkpoint =>
                Rank(Beside(gathered).verdict.confidence) >=
                    Rank(trial.out.verdict.confidence)

\* the confidences that checkpoints within the cap of a level bring about,
\* with no pattern match and no garbage
Attainable(level) ==
    {finalEvaluation(gathered, FALSE, FALSE, level).verdict.confidence :
        gathered \in {g \in CheckpointGrid : 0 <= g /\ g <= Pts(1000) * SensitivityCap(level)}}
\* C20: the checkpoint is clamped to the cap of the level before it is
\* classified, so that the confidence is never high at level 4 or 5, and
\* at level 5 it is medium through the garbage fallback only (garbage, no
\* pattern match, a checkpoint under the low threshold); at the levels 1, 2
\* and 3 each of none, low, medium and high is the confidence of some
\* checkpoint within the cap.
C20_TiersWithinCap ==
    Applied("finalEvaluation") =>
        /\ trial.given.level \in {4, 5} => trial.out.verdict.confidence # "high"
        /\ (trial.given.level = 5 /\ trial.out.verdict.confidence = "medium") =>
              /\ trial.given.garbage
              /\ ~trial.given.detected
              /\ trial.out.checkpoint < confidenceThresholds(5).low
        /\ trial.given.level \in 1..3 =>
              Attainable(trial.given.level) = {"none", "low", "medium", "high"}
\* evidence over the high threshold of level 4 has been clamped to the cap
\* of the level and classified medium
C20_ClampedUnderHigh ==
    /\ Applied("finalEvaluation")
    /\ trial.given.level = 4
    /\ trial.given.gathered >= confidenceThresholds(4).high
    /\ trial.out.checkpoint = Pts(2000)
    /\ trial.out.verdict.confidence = "medium"

\* the text is four single letters joined by single separator characters
IsSeparatedWord(t) ==
    /\ Len(t) = 7
    /\ \A i \in {1, 3, 5, 7} : t[i] \in Letters
    /\ \A i \in {2, 4, 6} : t[i] \in SepChars
\* C25: reconstructSeparatedWords turns a word of four single letters joined
\* by single separator characters (s.l.o.t, s-l-o-t) into the four letters
\* joined (slot), and a third application changes nothing of what two
\* applications left.
C25_SeparatedWordJoined ==
    Applied("reconstructSeparatedWords") =>
        /\ IsSeparatedWord(trial.given) =>
              trial.out.once = <<trial.given[1], trial.given[3], trial.given[5], trial.given[7]>>
        /\ trial.out.thrice = trial.out.twice
\* the second half of C25 alone: a third application changes nothing
C25_ThirdPassChangesNothing ==
    Applied("reconstructSeparatedWords") => trial.out.thrice = trial.out.twice
\* the first half of C25 for the separator _ alone
C25_UnderscoredWordJoined ==
    (Applied("reconstructSeparatedWords") /\ IsSeparatedWord(trial.given)
        /\ \A i \in {2, 4, 6} : trial.given[i] = "_") =>
        trial.out.once = <<trial.given[1], trial.given[3], trial.given[5], trial.given[7]>>

(***************************************************************************)
(* Properties of the moderation script                                     *)
(***************************************************************************)
\* the lines the history file holds
HeldLines ==
    IF historyFile.exists /\ historyFile.content # <<>>
    THEN SplitLines(SubSeq(historyFile.content, 1, Len(historyFile.content) - 1))
    ELSE <<>>
\* the file holds at most the maxLines of the last call, and its lines are
\* the messages appended last, in the order they were appended; as many as
\* maxLines allows when every call had the same maxLines
HoldsNewest ==
    LET n == Len(appended)
        k == Len(HeldLines)
        limit == appended[n].maxLines
    IN /\ historyFile.exists
       /\ historyFile.content # <<>>
       /\ historyFile.content[Len(historyFile.content)] = "\n"
       /\ k <= limit
       /\ k <= n
       /\ HeldLines = [i \in 1..k |-> appended[n - k + i].message]
       /\ (\A i \in 1..n : appended[i].maxLines = limit) =>
             k = (IF n < limit THEN n ELSE limit)
C30_PositiveLimitHoldsNewest ==
    (appended # <<>> /\ \A i \in DOMAIN appended : appended[i].maxLines >= 1) => HoldsNewest

\* the runs inside deleteAllComments: waiting for the comments, for a
\* deletion or for the delay after one
Processing == {r \in DOMAIN runs : runs[r].stage \in {"fetch", "deleting", "delay"}}
\* no run has sent a deletion request after reject() was called on it
NoDeletionAfterReject == \A q \in requests : ~q.rejected
\* C27: at most one moderation run processes comments at any time, under
\* every interleaving of start(), reject() and the asynchronous steps, and
\* a run that was rejected sends no deletion request after reject() has
\* returned, also when start() is called again before the run observes the
\* flag.
C27_OneRunAndNoDeletionAfterReject ==
    Cardinality(Processing) <= 1 /\ NoDeletionAfterReject
\* C27, its first half alone: at most one run processes comments
C27_OneRunProcesses == Cardinality(Processing) <= 1
\* C27, its second half alone: a rejected run sends no deletion request
C27_RejectedRunSendsNothing == NoDeletionAfterReject
\* C27, the interleaving at the delay: a run sent a request, was rejected
\* while it waited, and sent its next request all the same, beside a
\* second run
C27_DeletionAfterRejectedDelay ==
    /\ \E p, q \in requests :
          p.run = q.run /\ p.index < q.index /\ ~p.rejected /\ q.rejected
    /\ Cardinality(Processing) = 2
\* C27, what the flag does ensure: no run begins while isRunning is set
C27_StartRefusedWhileFlagSet ==
    [][isRunning => Len(runs') = Len(runs)]_vars

\* C28: every moderation run that start() begins eventually resets
\* isRunning to false, on every path (empty id, unsupported platform,
\* credentials missing, unreadable or malformed, missing token, no
\* comments, fetch failure, cancellation by reject(), normal completion),
\* given that every asynchronous step settles in the end.
C28_EveryRunResets ==
    \A r \in 1..MaxRuns :
        (Len(runs) >= r) ~> (Len(runs) >= r /\ runs[r].stage = "ended" /\ runs[r].reset)
\* a run that reject() cancelled has ended with isRunning reset, and a run
\* has completed and written its history line
C28_CancelledAndCompletedRunsReset ==
    /\ \E r \in DOMAIN runs : runs[r].stage = "ended" /\ runs[r].rejected /\ runs[r].reset
    /\ \E r \in DOMAIN runs : runs[r].stage = "ended" /\ ~runs[r].rejected /\ runs[r].reset
    /\ appended # <<>>
    /\ ~isRunning

\* C29: the deletion decision of the moderation loop agrees with the flag
\* rule of the test harness: a comment is sent for deletion only if detect
\* returned isGambling = true with confidence 'medium' or 'high', whatever
\* the random terms of the score are; a result of confidence 'low' or
\* 'none' is never deleted.
C29_DeletedOnlyIfFlagged ==
    \A q \in requests :
        /\ detectComment(q.comment).isGambling
        /\ highOrMedium(detectComment(q.comment).confidence)
        /\ wouldFlag(detectComment(q.comment))
\* C29, what the loop does ensure: a comment sent for deletion has
\* isGambling = true, and every comment analysed with isGambling = true is sent
C29_DeletedOnlyIfGambling ==
    \A q \in requests : detectComment(q.comment).isGambling

====
